---- MODULE Spec2Model ----
(***************************************************************************)
(* A model of the BSP core of db-reverie-engine: point classification      *)
(* (calc_leaf_index), PVS decoding (unpack_vis), swept traces              *)
(* (trace_brush / trace_leaf / recursive_trace / boxtrace / linetrace)     *)
(* and the slide move built on them (trace_move).                          *)
(*                                                                         *)
(* f32 values are modelled as exact rationals [n, d] (d > 0, lowest        *)
(* terms): comparisons and arithmetic are those of the reals, rounding is  *)
(* not modelled.  Indices are 0-based as in the source; a sequence s is    *)
(* read at source index i as s[i + 1].                                     *)
(***************************************************************************)
EXTENDS Integers, Sequences, FiniteSets, TLC

VARIABLES
    level,      \* the loaded BspFile (read-only after load)
    pc,         \* which query is running: "idle", or the name of its position
    leafq,      \* calc_leaf_index: position, cur_node, visited nodes, result
    visq,       \* unpack_vis: cluster_index, cursors v and c, bytes read
    vis_info,   \* unpack_vis: the caller's output buffer
    traceq,     \* boxtrace / linetrace: the arguments and the returned Trace
    moveq,      \* trace_move: its locals, loop position and result
    walkq,      \* the three tree traversals made for one position
    loadq,      \* the level load in progress (MapData::load_map)
    cacheq,     \* the resource cache and the references handed out
    planeq,     \* one plane tested against a segment, as trace_brush and recursive_trace do
    renderq     \* the renderer: vis, visible_leaves, prev_leaf (SpecRender)

vars == <<level, pc, leafq, visq, vis_info, traceq, moveq, walkq, loadq, cacheq, planeq, renderq>>

(***************************************************************************)
(* Rationals standing for f32 values.                                      *)
(***************************************************************************)
Abs(i) == IF i < 0 THEN -i ELSE i

RECURSIVE Gcd(_, _)
Gcd(a, b) == IF b = 0 THEN a ELSE Gcd(b, a % b)

\* n/d in lowest terms with a positive denominator (d # 0)
Reduce(n, d, g) ==
    IF d < 0 THEN [n |-> -(n \div g), d |-> -(d \div g)]
    ELSE [n |-> n \div g, d |-> d \div g]

Rat(n, d) == Reduce(n, d, Gcd(Abs(n), Abs(d)))

RI(i) == [n |-> i, d |-> 1]
R0 == RI(0)
R1 == RI(1)

\* the operations divide out common factors before they multiply, so that
\* intermediate products stay small; the values are the exact ones
DenGcd(a, b) == IF a.d = 0 /\ b.d = 0 THEN 1 ELSE Gcd(a.d, b.d)
CrossGcd(n, d) == IF n = 0 /\ d = 0 THEN 1 ELSE Gcd(Abs(n), Abs(d))

RAddG(a, b, g) == Rat(a.n * (b.d \div g) + b.n * (a.d \div g), (a.d \div g) * b.d)
RSubG(a, b, g) == Rat(a.n * (b.d \div g) - b.n * (a.d \div g), (a.d \div g) * b.d)
RMulG(a, b, g, h) == Rat((a.n \div g) * (b.n \div h), (a.d \div h) * (b.d \div g))

RAdd(a, b) == RAddG(a, b, DenGcd(a, b))
RSub(a, b) == RSubG(a, b, DenGcd(a, b))
RMul(a, b) == RMulG(a, b, CrossGcd(a.n, b.d), CrossGcd(b.n, a.d))
RDiv(a, b) == RMulG(a, [n |-> b.d, d |-> b.n], CrossGcd(a.n, b.n), CrossGcd(b.d, a.d))
RNeg(a)    == [n |-> -a.n, d |-> a.d]
RAbs(a)    == [n |-> Abs(a.n), d |-> a.d]
RLtG(a, b, g) == a.n * (b.d \div g) < b.n * (a.d \div g)
RLeG(a, b, g) == a.n * (b.d \div g) <= b.n * (a.d \div g)
RLt(a, b)  == RLtG(a, b, DenGcd(a, b))
RLe(a, b)  == RLeG(a, b, DenGcd(a, b))
RGt(a, b)  == RLt(b, a)
RGe(a, b)  == RLe(b, a)

\* f32::MIN: below every value the bounded inputs produce.  With d = 0 the
\* cross-multiplied comparisons above order it below every rational.
F32_MIN == [n |-> -1, d |-> 0]

\* `LET x == v IN F(x)` with v evaluated once (TLC re-evaluates a LET
\* definition at every use)
Bind(v, F(_)) == CHOOSE r \in { F(x) : x \in {v} } : TRUE

(***************************************************************************)
(* Vector3 (dbsdk_rs::math::Vector3) over the rationals.                   *)
(***************************************************************************)
Vec(x, y, z) == [x |-> x, y |-> y, z |-> z]
VI(x, y, z)  == Vec(RI(x), RI(y), RI(z))
VZero        == VI(0, 0, 0)

VAdd(a, b)   == Vec(RAdd(a.x, b.x), RAdd(a.y, b.y), RAdd(a.z, b.z))
VSub(a, b)   == Vec(RSub(a.x, b.x), RSub(a.y, b.y), RSub(a.z, b.z))
VScale(a, s) == Vec(RMul(a.x, s), RMul(a.y, s), RMul(a.z, s))
Dot(a, b)    == RAdd(RAdd(RMul(a.x, b.x), RMul(a.y, b.y)), RMul(a.z, b.z))
Cross(a, b)  == Vec(RSub(RMul(a.y, b.z), RMul(a.z, b.y)),
                    RSub(RMul(a.z, b.x), RMul(a.x, b.z)),
                    RSub(RMul(a.x, b.y), RMul(a.y, b.x)))

\* Option<T>; None carries a zero vector in place of the absent value
None    == [some |-> FALSE, v |-> VZero]
Some(v) == [some |-> TRUE, v |-> v]

(***************************************************************************)
(* Level data (bsp_file.rs): the lumps the queries read.                   *)
(***************************************************************************)
Plane(normal, distance, plane_type) ==
    [normal |-> normal, distance |-> distance, plane_type |-> plane_type]

Node(plane, front_child, back_child) ==
    [plane |-> plane, front_child |-> front_child, back_child |-> back_child]

Leaf(contents, cluster, first_leaf_brush, num_leaf_brushes) ==
    [contents |-> contents, cluster |-> cluster,
     first_leaf_brush |-> first_leaf_brush, num_leaf_brushes |-> num_leaf_brushes]

Brush(first_brush_side, num_brush_sides, contents) ==
    [first_brush_side |-> first_brush_side, num_brush_sides |-> num_brush_sides,
     contents |-> contents]

BspFile(planes, nodes, leaves, leaf_brushes, brushes, brush_sides, headnode, clusters, vis_buffer) ==
    [planes |-> planes, nodes |-> nodes, leaves |-> leaves,
     leaf_brushes |-> leaf_brushes, brushes |-> brushes,
     brush_sides |-> brush_sides, headnode |-> headnode,
     clusters |-> clusters, vis_buffer |-> vis_buffer]

U16_MAX == 65535

CONTENTS_SOLID  == 1
CONTENTS_WINDOW == 2
MASK_SOLID      == 3

\* contents & content_mask over the two content bits the masks use
BitAnd2(a, b) ==
    (IF a % 2 = 1 /\ b % 2 = 1 THEN 1 ELSE 0)
  + (IF (a \div 2) % 2 = 1 /\ (b \div 2) % 2 = 1 THEN 2 ELSE 0)

(***************************************************************************)
(* State of the queries when none is running.                              *)
(***************************************************************************)
NoLeafq  == [position |-> VZero, cur_node |-> 0, visited |-> <<>>, ret |-> -1]
NoVisq   == [cluster_index |-> 0, v |-> 0, c |-> 0, iters |-> <<>>]
NoTraceq == [kind |-> "none"]
NoMoveq  == [iter |-> 0]
NoWalkq  == [step |-> "none"]
NoLoadq  == [step |-> "none"]
NoCacheq == [step |-> "none"]
NoPlaneq == [step |-> "none"]
NoRenderq == [step |-> "none"]

(***************************************************************************)
(* Spatial index: BspFile::calc_leaf_index, one loop iteration per step.   *)
(***************************************************************************)
PlaneSide(position, plane) == RSub(Dot(position, plane.normal), plane.distance)

\* calc_leaf_child with the tie sent to the back child (side > 0.0)
calc_leaf_child_tie_back(position, n) ==
    LET node  == level.nodes[n + 1]
        plane == level.planes[node.plane + 1]
        side  == PlaneSide(position, plane)
    IN  IF RGt(side, R0) THEN node.front_child ELSE node.back_child

\* calc_leaf_child with the two children exchanged
calc_leaf_child_swapped(position, n) ==
    LET node  == level.nodes[n + 1]
        plane == level.planes[node.plane + 1]
        side  == PlaneSide(position, plane)
    IN  IF RGe(side, R0) THEN node.back_child ELSE node.front_child

\* the child the loop body moves to from node n
calc_leaf_child(position, n) ==
    LET node  == level.nodes[n + 1]
        plane == level.planes[node.plane + 1]
        side  == PlaneSide(position, plane)
    IN  IF RGe(side, R0) THEN node.front_child ELSE node.back_child

LeafPoints ==
    { VI(-1, 0, 0), VI(1, 0, 0), VI(0, 0, 0), VI(0, 3, -1), VI(1, 1, 1),
      Vec(RI(-1), Rat(5, 3), R0), VI(-1, -1, -1) }

CalcLeafCall ==
    /\ pc = "idle"
    /\ \E p \in LeafPoints :
         leafq' = [position |-> p, cur_node |-> 0, visited |-> <<>>, ret |-> -1]
    /\ pc' = "calc_leaf"
    /\ UNCHANGED <<level, renderq, planeq, cacheq, loadq, walkq, visq, vis_info, traceq, moveq>>

\* while cur_node >= 0 { ... }
CalcLeafStep ==
    /\ pc = "calc_leaf"
    /\ leafq.cur_node >= 0
    /\ leafq' = [leafq EXCEPT
                   !.cur_node = calc_leaf_child(leafq.position, leafq.cur_node),
                   !.visited  = Append(leafq.visited, leafq.cur_node)]
    /\ UNCHANGED <<level, renderq, planeq, cacheq, loadq, walkq, pc, visq, vis_info, traceq, moveq>>

\* return -cur_node - 1
CalcLeafReturn ==
    /\ pc = "calc_leaf"
    /\ leafq.cur_node < 0
    /\ leafq' = [leafq EXCEPT !.ret = -leafq.cur_node - 1]
    /\ pc' = "leaf_done"
    /\ UNCHANGED <<level, renderq, planeq, cacheq, loadq, walkq, visq, vis_info, traceq, moveq>>

CalcLeafDone ==
    /\ pc = "leaf_done"
    /\ pc' = "idle"
    /\ leafq' = NoLeafq
    /\ UNCHANGED <<level, renderq, planeq, cacheq, loadq, walkq, visq, vis_info, traceq, moveq>>

(***************************************************************************)
(* Node tables for the spatial index: every table of at most MaxNodes      *)
(* nodes over LeafPlanes whose children are leaf references -1, -2 or      *)
(* later nodes (acyclic; node 0 is the root).                              *)
(***************************************************************************)
MaxNodes == 2

LeafPlanes ==
    << Plane(VI(1, 0, 0), R0, 0),
       Plane(Vec(R0, Rat(3, 5), Rat(4, 5)), R1, 3) >>

LeafRefs == {-1, -2}

NodeTables ==
    UNION { { t \in [1..n -> [plane : 0..(Len(LeafPlanes) - 1),
                              front_child : LeafRefs \cup (1..(n - 1)),
                              back_child  : LeafRefs \cup (1..(n - 1))]] :
                \A i \in 1..n :
                    /\ t[i].front_child >= 0 => t[i].front_child > i - 1
                    /\ t[i].back_child >= 0  => t[i].back_child > i - 1 }
            : n \in 1..MaxNodes }

TwoLeaves == << Leaf(0, 0, 0, 0), Leaf(0, 1, 0, 0) >>

TreeLevel(t) == BspFile(LeafPlanes, t, TwoLeaves, <<>>, <<>>, <<>>, 0, <<>>, <<>>)

InitLeaf ==
    /\ level \in { TreeLevel(t) : t \in NodeTables }
    /\ pc = "idle"
    /\ leafq = NoLeafq
    /\ visq = NoVisq
    /\ vis_info = <<>>
    /\ traceq = NoTraceq
    /\ moveq = NoMoveq
    /\ walkq = NoWalkq
    /\ loadq = NoLoadq
    /\ cacheq = NoCacheq
    /\ planeq = NoPlaneq
    /\ renderq = NoRenderq

NextLeaf == CalcLeafCall \/ CalcLeafStep \/ CalcLeafReturn \/ CalcLeafDone

SpecLeaf == InitLeaf /\ [][NextLeaf]_vars

(***************************************************************************)
(* Visibility: VisLump::unpack_vis, one iteration of its while loop per    *)
(* step.  A read past the vis buffer or a write past the output buffer is  *)
(* a bounds-check panic.                                                   *)
(***************************************************************************)
BitSet(byte, bit) == (byte \div (2 ^ bit)) % 2 = 1

\* the output positions a literal byte at cursor c writes before it either
\* finishes (8 bits) or hits the end of the output buffer
LiteralBad(byte, c, info) == { b \in 0..7 : BitSet(byte, b) /\ c + b >= Len(info) }

Min(S) == CHOOSE x \in S : \A y \in S : x <= y

\* one loop iteration with the literal mask read most significant bit first
unpack_vis_iter_msb(buf, q, info) ==
    IF q.v >= Len(buf) THEN [v |-> q.v, c |-> q.c, info |-> info, panic |-> TRUE]
    ELSE LET byte == buf[q.v + 1] IN
      IF byte = 0
      THEN IF q.v + 1 >= Len(buf)
           THEN [v |-> q.v + 1, c |-> q.c, info |-> info, panic |-> TRUE]
           ELSE [v |-> q.v + 2, c |-> q.c + 8 * buf[q.v + 2], info |-> info,
                 panic |-> FALSE]
      ELSE LET bad == { b \in 0..7 : BitSet(byte, 7 - b) /\ q.c + b >= Len(info) }
               stop == IF bad = {} THEN 8 ELSE Min(bad)
           IN  [v |-> IF bad = {} THEN q.v + 1 ELSE q.v,
                c |-> q.c + stop,
                info |-> [k \in 1..Len(info) |->
                            \/ info[k]
                            \/ /\ k - 1 - q.c \in 0..(stop - 1)
                               /\ BitSet(byte, 7 - (k - 1 - q.c))],
                panic |-> bad # {}]

\* one loop iteration whose zero run consumes only the zero byte
unpack_vis_iter_short_run(buf, q, info) ==
    IF q.v >= Len(buf) THEN [v |-> q.v, c |-> q.c, info |-> info, panic |-> TRUE]
    ELSE LET byte == buf[q.v + 1] IN
      IF byte = 0
      THEN IF q.v + 1 >= Len(buf)
           THEN [v |-> q.v + 1, c |-> q.c, info |-> info, panic |-> TRUE]
           ELSE [v |-> q.v + 1, c |-> q.c + 8 * buf[q.v + 2], info |-> info,
                 panic |-> FALSE]
      ELSE LET bad  == LiteralBad(byte, q.c, info)
               stop == IF bad = {} THEN 8 ELSE Min(bad)
           IN  [v |-> IF bad = {} THEN q.v + 1 ELSE q.v,
                c |-> q.c + stop,
                info |-> [k \in 1..Len(info) |->
                            \/ info[k]
                            \/ /\ k - 1 - q.c \in 0..(stop - 1)
                               /\ BitSet(byte, k - 1 - q.c)],
                panic |-> bad # {}]

\* one loop iteration whose literal byte flips the entries of its set bits
unpack_vis_iter_toggle(buf, q, info) ==
    IF q.v >= Len(buf) THEN [v |-> q.v, c |-> q.c, info |-> info, panic |-> TRUE]
    ELSE LET byte == buf[q.v + 1] IN
      IF byte = 0
      THEN IF q.v + 1 >= Len(buf)
           THEN [v |-> q.v + 1, c |-> q.c, info |-> info, panic |-> TRUE]
           ELSE [v |-> q.v + 2, c |-> q.c + 8 * buf[q.v + 2], info |-> info,
                 panic |-> FALSE]
      ELSE LET bad  == LiteralBad(byte, q.c, info)
               stop == IF bad = {} THEN 8 ELSE Min(bad)
           IN  [v |-> IF bad = {} THEN q.v + 1 ELSE q.v,
                c |-> q.c + stop,
                info |-> [k \in 1..Len(info) |->
                            info[k] # (/\ k - 1 - q.c \in 0..(stop - 1)
                                       /\ BitSet(byte, k - 1 - q.c))],
                panic |-> bad # {}]

\* the body of `while c < self.clusters.len()`: the cursors and the output
\* after it, or a panic
unpack_vis_iter(buf, q, info) ==
    IF q.v >= Len(buf) THEN [v |-> q.v, c |-> q.c, info |-> info, panic |-> TRUE]
    ELSE LET byte == buf[q.v + 1] IN
      IF byte = 0
      THEN IF q.v + 1 >= Len(buf)
           THEN [v |-> q.v + 1, c |-> q.c, info |-> info, panic |-> TRUE]
           ELSE [v |-> q.v + 2, c |-> q.c + 8 * buf[q.v + 2], info |-> info,
                 panic |-> FALSE]
      ELSE LET bad  == LiteralBad(byte, q.c, info)
               stop == IF bad = {} THEN 8 ELSE Min(bad)
           IN  [v |-> IF bad = {} THEN q.v + 1 ELSE q.v,
                c |-> q.c + stop,
                info |-> [k \in 1..Len(info) |->
                            \/ info[k]
                            \/ /\ k - 1 - q.c \in 0..(stop - 1)
                               /\ BitSet(byte, k - 1 - q.c)],
                panic |-> bad # {}]

NumClusters == Len(level.clusters)

\* the caller hands in a cleared buffer with one entry per cluster
UnpackCall ==
    /\ pc = "idle"
    /\ \E ci \in 0..(NumClusters - 1) :
         visq' = [cluster_index |-> ci, v |-> level.clusters[ci + 1], c |-> 0,
                  iters |-> <<>>]
    /\ vis_info' = [k \in 1..NumClusters |-> FALSE]
    /\ pc' = "unpack"
    /\ UNCHANGED <<level, renderq, planeq, cacheq, loadq, walkq, leafq, traceq, moveq>>

UnpackStep ==
    /\ pc = "unpack"
    /\ visq.c < NumClusters
    /\ LET r == unpack_vis_iter(level.vis_buffer, visq, vis_info)
       IN  /\ visq' = [visq EXCEPT
                         !.v = r.v, !.c = r.c,
                         !.iters = Append(visq.iters,
                                     [v0 |-> visq.v, c0 |-> visq.c,
                                      v1 |-> r.v, c1 |-> r.c, panic |-> r.panic])]
           /\ vis_info' = r.info
           /\ pc' = IF r.panic THEN "panic" ELSE "unpack"
    /\ UNCHANGED <<level, renderq, planeq, cacheq, loadq, walkq, leafq, traceq, moveq>>

UnpackReturn ==
    /\ pc = "unpack"
    /\ visq.c >= NumClusters
    /\ pc' = "unpack_done"
    /\ UNCHANGED <<level, renderq, planeq, cacheq, loadq, walkq, leafq, visq, vis_info, traceq, moveq>>

UnpackDone ==
    /\ pc \in {"unpack_done", "panic"}
    /\ pc' = "idle"
    /\ visq' = NoVisq
    /\ vis_info' = <<>>
    /\ UNCHANGED <<level, renderq, planeq, cacheq, loadq, walkq, leafq, traceq, moveq>>

(***************************************************************************)
(* Vis lumps for the decoder: every buffer of at most MaxVisBytes bytes    *)
(* over VisBytes, a cluster count, the row offset of cluster 0 and the     *)
(* row offset shared by the other clusters.                                *)
(***************************************************************************)
MaxVisBytes == 3

VisBytes == {0, 1, 3, 130, 255}

ClusterCounts == {2, 8, 10}

VisBuffers == UNION { [1..n -> VisBytes] : n \in 1..MaxVisBytes }

VisLevel(buf, n, o0, o1) ==
    BspFile(<<>>, <<>>, <<>>, <<>>, <<>>, <<>>, 0,
            [i \in 1..n |-> IF i = 1 THEN o0 ELSE o1], buf)

InitVis ==
    /\ \E buf \in VisBuffers, n \in ClusterCounts :
         \E o0, o1 \in 0..(Len(buf) - 1) : level = VisLevel(buf, n, o0, o1)
    /\ pc = "idle"
    /\ leafq = NoLeafq
    /\ visq = NoVisq
    /\ vis_info = <<>>
    /\ traceq = NoTraceq
    /\ moveq = NoMoveq
    /\ walkq = NoWalkq
    /\ loadq = NoLoadq
    /\ cacheq = NoCacheq
    /\ planeq = NoPlaneq
    /\ renderq = NoRenderq

NextVis == UnpackCall \/ UnpackStep \/ UnpackReturn \/ UnpackDone

SpecVis == InitVis /\ [][NextVis]_vars

(***************************************************************************)
(* Repeated decodes: unpack_vis as one call, made for a cluster into a     *)
(* cleared buffer, then again into that output and into a second cleared   *)
(* buffer.  visq.first is the output of the first call.                    *)
(***************************************************************************)
\* the loop `while c < self.clusters.len()` from the cursors q on
RECURSIVE unpack_vis_loop(_, _)
unpack_vis_loop(q, info) ==
    IF q.c >= NumClusters THEN [info |-> info, panic |-> FALSE]
    ELSE Bind(unpack_vis_iter(level.vis_buffer, q, info), LAMBDA r :
           IF r.panic THEN [info |-> r.info, panic |-> TRUE]
           ELSE unpack_vis_loop([v |-> r.v, c |-> r.c], r.info))

\* VisLump::unpack_vis
unpack_vis(cluster_index, vis_info_in) ==
    unpack_vis_loop([v |-> level.clusters[cluster_index + 1], c |-> 0], vis_info_in)

Cleared == [k \in 1..NumClusters |-> FALSE]

DecodeFirst ==
    /\ pc = "idle"
    /\ \E ci \in 0..(NumClusters - 1) :
         \E r \in { unpack_vis(ci, Cleared) } :
             /\ visq' = [cluster_index |-> ci, first |-> r.info, again |-> FALSE,
                         fresh |-> None, panic |-> r.panic]
             /\ vis_info' = r.info
             /\ pc' = IF r.panic THEN "panic" ELSE "decoded"
    /\ UNCHANGED <<level, renderq, planeq, cacheq, loadq, walkq, leafq, traceq, moveq>>

\* the same cluster decoded into the output of the first call
DecodeAgain ==
    /\ pc = "decoded"
    /\ ~visq.again
    /\ \E r \in { unpack_vis(visq.cluster_index, vis_info) } :
         /\ visq' = [visq EXCEPT !.again = TRUE, !.panic = r.panic]
         /\ vis_info' = r.info
    /\ UNCHANGED <<level, renderq, planeq, cacheq, loadq, walkq, pc, leafq, traceq, moveq>>

\* the same cluster decoded into another cleared buffer
DecodeFresh ==
    /\ pc = "decoded"
    /\ ~visq.fresh.some
    /\ \E r \in { unpack_vis(visq.cluster_index, Cleared) } :
         visq' = [visq EXCEPT !.fresh = Some(r)]
    /\ UNCHANGED <<level, renderq, planeq, cacheq, loadq, walkq, pc, leafq, vis_info, traceq, moveq>>

DecodeDone ==
    /\ \/ pc = "panic"
       \/ pc = "decoded" /\ visq.again /\ visq.fresh.some
    /\ pc' = "idle"
    /\ visq' = NoVisq
    /\ vis_info' = <<>>
    /\ UNCHANGED <<level, renderq, planeq, cacheq, loadq, walkq, leafq, traceq, moveq>>

\* every vis buffer, with one row offset shared by all clusters
InitRedecode ==
    /\ \E buf \in VisBuffers, n \in ClusterCounts :
         \E o \in 0..(Len(buf) - 1) : level = VisLevel(buf, n, o, o)
    /\ pc = "idle"
    /\ leafq = NoLeafq
    /\ visq = NoVisq
    /\ vis_info = <<>>
    /\ traceq = NoTraceq
    /\ moveq = NoMoveq
    /\ walkq = NoWalkq
    /\ loadq = NoLoadq
    /\ cacheq = NoCacheq
    /\ planeq = NoPlaneq
    /\ renderq = NoRenderq

NextRedecode == DecodeFirst \/ DecodeAgain \/ DecodeFresh \/ DecodeDone

SpecRedecode == InitRedecode /\ [][NextRedecode]_vars

(***************************************************************************)
(* Collision: trace_brush, trace_leaf, recursive_trace, boxtrace and       *)
(* linetrace.  A trace is computed in one step; `clipped` records, in      *)
(* order, every brush handed to trace_brush with the fraction before and   *)
(* after it, and `leaves` the leaves handed to trace_leaf.                 *)
(***************************************************************************)
DIST_EPSILON == Rat(1, 100)

NewTrace ==
    [all_solid |-> FALSE, start_solid |-> FALSE, fraction |-> R1,
     end_pos |-> VZero, plane |-> -1]

\* the arguments every level of the recursion passes on unchanged
TraceArgs(content_mask, p1f, p2f, start, end, frac_adj, box_extents) ==
    [content_mask |-> content_mask, p1f |-> p1f, p2f |-> p2f, start |-> start,
     end |-> end, frac_adj |-> frac_adj, box_extents |-> box_extents]

\* the plane distance with the extents taken against the normal's sign on
\* no axis
brush_plane_dist_unsigned(plane, box_extents) ==
    IF box_extents.some
    THEN LET v    == box_extents.v
             offs == Vec(RNeg(v.x), RNeg(v.y), RNeg(v.z))
         IN  RSub(plane.distance, Dot(offs, plane.normal))
    ELSE plane.distance

\* the plane distance trace_brush tests against
brush_plane_dist(plane, box_extents) ==
    IF box_extents.some
    THEN LET v    == box_extents.v
             offs == Vec(IF RLt(plane.normal.x, R0) THEN v.x ELSE RNeg(v.x),
                         IF RLt(plane.normal.y, R0) THEN v.y ELSE RNeg(v.y),
                         IF RLt(plane.normal.z, R0) THEN v.z ELSE RNeg(v.z))
         IN  RSub(plane.distance, Dot(offs, plane.normal))
    ELSE plane.distance

\* one brush side with start and end at d1 and d2 from its plane: the
\* accumulators after it (returned: the early `return`)
brush_side(side, d1, d2, acc) ==
    IF RGt(d1, R0) /\ RGe(d2, d1)
    THEN [acc EXCEPT !.getout = acc.getout \/ RGt(d2, R0), !.startout = TRUE,
                     !.returned = TRUE]
    ELSE IF RLe(d1, R0) /\ RLe(d2, R0)
    THEN acc
    ELSE IF RGt(d1, d2)
    THEN Bind(RDiv(RSub(d1, DIST_EPSILON), RSub(d1, d2)), LAMBDA f :
           [acc EXCEPT
              !.getout    = acc.getout \/ RGt(d2, R0),
              !.startout  = acc.startout \/ RGt(d1, R0),
              !.enterfrac = IF RGt(f, acc.enterfrac) THEN f ELSE acc.enterfrac,
              !.hitplane  = IF RGt(f, acc.enterfrac) THEN side.plane
                            ELSE acc.hitplane])
    ELSE Bind(RDiv(RAdd(d1, DIST_EPSILON), RSub(d1, d2)), LAMBDA f :
           [acc EXCEPT
              !.getout    = acc.getout \/ RGt(d2, R0),
              !.startout  = acc.startout \/ RGt(d1, R0),
              !.exitfrac  = IF RLt(f, acc.exitfrac) THEN f ELSE acc.exitfrac])

\* d1 and d2 of trace_brush: a point against the moved plane
brush_point_dist(p, plane, dist) == RSub(Dot(p, plane.normal), dist)

brush_side_at(side, plane, dist, a, acc) ==
    Bind(brush_point_dist(a.start, plane, dist), LAMBDA d1 :
    Bind(brush_point_dist(a.end, plane, dist), LAMBDA d2 :
      brush_side(side, d1, d2, acc)))

\* the loop over the brush sides, from side i on
RECURSIVE brush_sides(_, _, _, _)
brush_sides(brush, i, a, acc) ==
    IF acc.returned \/ i >= brush.num_brush_sides THEN acc
    ELSE
      LET side  == level.brush_sides[brush.first_brush_side + i + 1]
          plane == level.planes[side.plane + 1]
      IN  Bind(brush_side_at(side, plane, brush_plane_dist(plane, a.box_extents),
                             a, acc),
               LAMBDA acc1 : brush_sides(brush, i + 1, a, acc1))

BrushAcc ==
    [hitplane |-> -1, enterfrac |-> F32_MIN, exitfrac |-> R1,
     startout |-> FALSE, getout |-> FALSE, returned |-> FALSE]

\* trace_brush that takes every entry, also one not nearer than the best so far
trace_brush_any_entry(brush_idx, a, trace) ==
    LET brush == level.brushes[brush_idx + 1] IN
    IF brush.num_brush_sides = 0 THEN trace
    ELSE
      Bind(brush_sides(brush, 0, a, BrushAcc), LAMBDA acc :
      IF acc.returned THEN trace
      ELSE IF ~acc.startout
      THEN [trace EXCEPT !.start_solid = TRUE,
                         !.all_solid = trace.all_solid \/ ~acc.getout]
      ELSE IF RLt(acc.enterfrac, acc.exitfrac) /\ RGt(acc.enterfrac, F32_MIN)
      THEN [trace EXCEPT
              !.fraction = RAdd(IF RLt(acc.enterfrac, R0) THEN R0 ELSE acc.enterfrac,
                                a.frac_adj),
              !.plane = acc.hitplane]
      ELSE trace)

\* trace_brush that reports all_solid whenever the start is inside
trace_brush_all_solid(brush_idx, a, trace) ==
    LET brush == level.brushes[brush_idx + 1] IN
    IF brush.num_brush_sides = 0 THEN trace
    ELSE
      Bind(brush_sides(brush, 0, a, BrushAcc), LAMBDA acc :
      IF acc.returned THEN trace
      ELSE IF ~acc.startout
      THEN [trace EXCEPT !.start_solid = TRUE, !.all_solid = TRUE]
      ELSE IF /\ RLt(acc.enterfrac, acc.exitfrac)
              /\ RGt(acc.enterfrac, F32_MIN)
              /\ RLt(acc.enterfrac, trace.fraction)
      THEN [trace EXCEPT
              !.fraction = RAdd(IF RLt(acc.enterfrac, R0) THEN R0 ELSE acc.enterfrac,
                                a.frac_adj),
              !.plane = acc.hitplane]
      ELSE trace)

\* trace_brush without the clamp of a negative entry fraction to 0.0
trace_brush_no_clamp(brush_idx, a, trace) ==
    LET brush == level.brushes[brush_idx + 1] IN
    IF brush.num_brush_sides = 0 THEN trace
    ELSE
      Bind(brush_sides(brush, 0, a, BrushAcc), LAMBDA acc :
      IF acc.returned THEN trace
      ELSE IF ~acc.startout
      THEN [trace EXCEPT !.start_solid = TRUE,
                         !.all_solid = trace.all_solid \/ ~acc.getout]
      ELSE IF /\ RLt(acc.enterfrac, acc.exitfrac)
              /\ RGt(acc.enterfrac, F32_MIN)
              /\ RLt(acc.enterfrac, trace.fraction)
      THEN [trace EXCEPT !.fraction = RAdd(acc.enterfrac, a.frac_adj),
                         !.plane = acc.hitplane]
      ELSE trace)

\* trace_brush that records the nearer fraction and leaves trace.plane as it was
trace_brush_keep_plane(brush_idx, a, trace) ==
    LET brush == level.brushes[brush_idx + 1] IN
    IF brush.num_brush_sides = 0 THEN trace
    ELSE
      Bind(brush_sides(brush, 0, a, BrushAcc), LAMBDA acc :
      IF acc.returned THEN trace
      ELSE IF ~acc.startout
      THEN [trace EXCEPT !.start_solid = TRUE,
                         !.all_solid = trace.all_solid \/ ~acc.getout]
      ELSE IF /\ RLt(acc.enterfrac, acc.exitfrac)
              /\ RGt(acc.enterfrac, F32_MIN)
              /\ RLt(acc.enterfrac, trace.fraction)
      THEN [trace EXCEPT
              !.fraction = RAdd(IF RLt(acc.enterfrac, R0) THEN R0 ELSE acc.enterfrac,
                                a.frac_adj)]
      ELSE trace)

\* BspFile::trace_brush: the Trace after clipping the segment against one brush
trace_brush(brush_idx, a, trace) ==
    LET brush == level.brushes[brush_idx + 1] IN
    IF brush.num_brush_sides = 0 THEN trace
    ELSE
      Bind(brush_sides(brush, 0, a, BrushAcc), LAMBDA acc :
      IF acc.returned THEN trace
      ELSE IF ~acc.startout
      THEN [trace EXCEPT !.start_solid = TRUE,
                         !.all_solid = trace.all_solid \/ ~acc.getout]
      ELSE IF /\ RLt(acc.enterfrac, acc.exitfrac)
              /\ RGt(acc.enterfrac, F32_MIN)
              /\ RLt(acc.enterfrac, trace.fraction)
      THEN [trace EXCEPT
              !.fraction = RAdd(IF RLt(acc.enterfrac, R0) THEN R0 ELSE acc.enterfrac,
                                a.frac_adj),
              !.plane = acc.hitplane]
      ELSE trace)

\* the loop over a leaf's brushes without the test of checked_brush
RECURSIVE leaf_brushes_loop_no_check(_, _, _, _)
leaf_brushes_loop_no_check(leaf, i, a, st) ==
    IF i >= leaf.num_leaf_brushes THEN st
    ELSE
      LET brush_idx == level.leaf_brushes[leaf.first_leaf_brush + i + 1] IN
      IF FALSE THEN leaf_brushes_loop_no_check(leaf, i + 1, a, st)
      ELSE
        LET brush == level.brushes[brush_idx + 1]
            st1   == [st EXCEPT !.checked = st.checked \cup {brush_idx}]
        IN  IF BitAnd2(brush.contents, a.content_mask) = 0 THEN st1
            ELSE
              Bind(trace_brush(brush_idx, a, st1.trace), LAMBDA t2 :
              Bind([st1 EXCEPT
                      !.trace = t2,
                      !.clipped = Append(st1.clipped,
                                    [brush |-> brush_idx, before |-> st1.trace,
                                     after |-> t2])],
                   LAMBDA st2 :
                     IF RLe(t2.fraction, R0) THEN st2
                     ELSE leaf_brushes_loop_no_check(leaf, i + 1, a, st2)))

\* the loop `for i in 0..leaf.num_leaf_brushes` of trace_leaf, from i on
RECURSIVE leaf_brushes_loop(_, _, _, _)
leaf_brushes_loop(leaf, i, a, st) ==
    IF i >= leaf.num_leaf_brushes THEN st
    ELSE
      LET brush_idx == level.leaf_brushes[leaf.first_leaf_brush + i + 1] IN
      IF brush_idx \in st.checked THEN leaf_brushes_loop(leaf, i + 1, a, st)
      ELSE
        LET brush == level.brushes[brush_idx + 1]
            st1   == [st EXCEPT !.checked = st.checked \cup {brush_idx}]
        IN  IF BitAnd2(brush.contents, a.content_mask) = 0 THEN st1
            ELSE
              Bind(trace_brush(brush_idx, a, st1.trace), LAMBDA t2 :
              Bind([st1 EXCEPT
                      !.trace = t2,
                      !.clipped = Append(st1.clipped,
                                    [brush |-> brush_idx, before |-> st1.trace,
                                     after |-> t2])],
                   LAMBDA st2 :
                     IF RLe(t2.fraction, R0) THEN st2
                     ELSE leaf_brushes_loop(leaf, i + 1, a, st2)))

\* BspFile::trace_leaf
trace_leaf(leaf_index, a, st) ==
    LET leaf == level.leaves[leaf_index + 1]
        st0  == [st EXCEPT !.leaves = Append(st.leaves, leaf_index)]
    IN  IF BitAnd2(leaf.contents, a.content_mask) = 0 THEN st0
        ELSE leaf_brushes_loop(leaf, 0, a, st0)

\* (t1, t2, offset) of recursive_trace at a node plane
node_distances(plane, a) ==
    LET e == a.box_extents IN
    IF plane.plane_type = 0
    THEN [t1 |-> RSub(a.start.x, plane.distance),
          t2 |-> RSub(a.end.x, plane.distance),
          offset |-> IF e.some THEN e.v.x ELSE R0]
    ELSE IF plane.plane_type = 1
    THEN [t1 |-> RSub(a.start.y, plane.distance),
          t2 |-> RSub(a.end.y, plane.distance),
          offset |-> IF e.some THEN e.v.y ELSE R0]
    ELSE IF plane.plane_type = 2
    THEN [t1 |-> RSub(a.start.z, plane.distance),
          t2 |-> RSub(a.end.z, plane.distance),
          offset |-> IF e.some THEN e.v.z ELSE R0]
    ELSE [t1 |-> RSub(Dot(plane.normal, a.start), plane.distance),
          t2 |-> RSub(Dot(plane.normal, a.end), plane.distance),
          offset |-> IF e.some
                     THEN RAdd(RAdd(RAbs(RMul(e.v.x, plane.normal.x)),
                                    RAbs(RMul(e.v.y, plane.normal.y))),
                               RAbs(RMul(e.v.z, plane.normal.z)))
                     ELSE R0]

\* the children descended into with strict comparisons on the front side
trace_side_strict(t) ==
    IF RGt(t.t1, t.offset) /\ RGt(t.t2, t.offset) THEN "front"
    ELSE IF RLt(t.t1, RNeg(t.offset)) /\ RLt(t.t2, RNeg(t.offset)) THEN "back"
    ELSE "both"

\* the three exits of recursive_trace at a node: the children it calls
trace_side(t) ==
    IF RGe(t.t1, t.offset) /\ RGe(t.t2, t.offset) THEN "front"
    ELSE IF RLt(t.t1, RNeg(t.offset)) /\ RLt(t.t2, RNeg(t.offset)) THEN "back"
    ELSE "both"

\* BspFile::recursive_trace; st.calls lists the calls made, each with the
\* segment it was given and the call that made it, st.nodes the nodes at
\* which a side was chosen
RECURSIVE recursive_trace(_, _, _)
recursive_trace(node_idx, a, st0) ==
    Bind([st0 EXCEPT !.calls = Append(@, [node_idx |-> node_idx,
                                          start |-> a.start, end |-> a.end,
                                          parent |-> st0.cur])],
         LAMBDA st :
    IF RLe(st.trace.fraction, a.p1f) THEN st
    ELSE IF node_idx < 0 THEN trace_leaf(-node_idx - 1, a, st)
    ELSE
      LET node  == level.nodes[node_idx + 1]
          plane == level.planes[node.plane + 1]
          me    == Len(st.calls)
      IN  Bind(trace_side(node_distances(plane, a)), LAMBDA side :
          Bind([st EXCEPT !.nodes = Append(@, [node_idx |-> node_idx,
                                               call |-> me]),
                          !.cur = me],
               LAMBDA st1 :
          IF side = "front"
          THEN recursive_trace(node.front_child, a, st1)
          ELSE IF side = "back"
          THEN recursive_trace(node.back_child, a, st1)
          ELSE Bind(recursive_trace(node.front_child, a, st1), LAMBDA st2 :
                 recursive_trace(node.back_child, a, [st2 EXCEPT !.cur = me])))))

\* the end position both entry points compute from the final fraction
trace_end_pos(start, end, fraction) ==
    IF fraction = R1 THEN end
    ELSE VAdd(start, VScale(VSub(end, start), fraction))

TraceState ==
    [trace |-> NewTrace, checked |-> {}, clipped |-> <<>>, leaves |-> <<>>,
     calls |-> <<>>, nodes |-> <<>>, cur |-> 0]

\* boxtrace that leaves end_pos as initialised
boxtrace_no_end_pos(content_mask, start, end, box_extents) ==
    LET head_node == level.headnode
        a  == TraceArgs(content_mask, R0, R1, start, end, R0, Some(box_extents))
    IN  recursive_trace(head_node, a, TraceState)

\* BspFile::boxtrace
boxtrace(content_mask, start, end, box_extents) ==
    LET head_node == level.headnode
        a  == TraceArgs(content_mask, R0, R1, start, end, R0, Some(box_extents))
    IN  Bind(recursive_trace(head_node, a, TraceState), LAMBDA st :
          [st EXCEPT !.trace.end_pos =
             IF st.trace.fraction = R1 THEN end
             ELSE VAdd(start, VScale(VSub(end, start), st.trace.fraction))])

\* linetrace that leaves end_pos as initialised
linetrace_no_end_pos(content_mask, start, end) ==
    LET head_node == level.headnode
        a  == TraceArgs(content_mask, R0, R1, start, end, R0, None)
    IN  recursive_trace(head_node, a, TraceState)

\* BspFile::linetrace
linetrace(content_mask, start, end) ==
    LET head_node == level.headnode
        a  == TraceArgs(content_mask, R0, R1, start, end, R0, None)
    IN  Bind(recursive_trace(head_node, a, TraceState), LAMBDA st :
          [st EXCEPT !.trace.end_pos =
             IF st.trace.fraction = R1 THEN end
             ELSE VAdd(start, VScale(VSub(end, start), st.trace.fraction))])

TraceCoordsX == { RI(-3), Rat(-201, 200), Rat(-1, 200), RI(2), RI(7) }
TraceCoordsY == { RI(-1), RI(2), RI(7) }
TracePoints  == { Vec(x, y, RI(2)) : x \in TraceCoordsX, y \in TraceCoordsY }
TraceExtents == { VI(0, 0, 0), VI(1, 1, 1) }
TraceMasks   == { MASK_SOLID, CONTENTS_SOLID }

BoxTraceCall ==
    /\ pc = "idle"
    /\ \E m \in TraceMasks, s \in TracePoints, e \in TracePoints, x \in TraceExtents :
         \E r \in { boxtrace(m, s, e, x) } :
             traceq' = [kind |-> "box", content_mask |-> m, start |-> s, end |-> e,
                        box_extents |-> Some(x), trace |-> r.trace,
                        clipped |-> r.clipped, leaves |-> r.leaves,
                        calls |-> r.calls, nodes |-> r.nodes]
    /\ pc' = "traced"
    /\ UNCHANGED <<level, renderq, planeq, cacheq, loadq, walkq, leafq, visq, vis_info, moveq>>

LineTraceCall ==
    /\ pc = "idle"
    /\ \E m \in TraceMasks, s \in TracePoints, e \in TracePoints :
         \E r \in { linetrace(m, s, e) } :
             traceq' = [kind |-> "line", content_mask |-> m, start |-> s, end |-> e,
                        box_extents |-> None, trace |-> r.trace,
                        clipped |-> r.clipped, leaves |-> r.leaves,
                        calls |-> r.calls, nodes |-> r.nodes]
    /\ pc' = "traced"
    /\ UNCHANGED <<level, renderq, planeq, cacheq, loadq, walkq, leafq, visq, vis_info, moveq>>

TraceDone ==
    /\ pc = "traced"
    /\ pc' = "idle"
    /\ traceq' = NoTraceq
    /\ UNCHANGED <<level, renderq, planeq, cacheq, loadq, walkq, leafq, visq, vis_info, moveq>>

(***************************************************************************)
(* Levels for the traces.  An axis-aligned box brush has six sides; its    *)
(* planes are listed +x, -x, +y, -y, +z, -z.                               *)
(***************************************************************************)
BoxPlanes(x0, x1, y0, y1, z0, z1) ==
    << Plane(VI(1, 0, 0), RI(x1), 0), Plane(VI(-1, 0, 0), RI(-x0), 0),
       Plane(VI(0, 1, 0), RI(y1), 1), Plane(VI(0, -1, 0), RI(-y0), 1),
       Plane(VI(0, 0, 1), RI(z1), 2), Plane(VI(0, 0, -1), RI(-z0), 2) >>

SideOf(p) == [plane |-> p]

EmptyLeaf == Leaf(0, 65535, 0, 0)

\* scenario (a): one closed cube brush [0,4]^3, each face a node plane
\* planes 0..5: the cube's faces; 6..8: x = 0, y = 0, z = 0 facing +
CubeLevel ==
    BspFile(
      BoxPlanes(0, 4, 0, 4, 0, 4)
        \o << Plane(VI(1, 0, 0), R0, 0), Plane(VI(0, 1, 0), R0, 1),
              Plane(VI(0, 0, 1), R0, 2) >>,
      << Node(0, -1, 1), Node(6, 2, -2), Node(2, -3, 3), Node(7, 4, -4),
         Node(4, -5, 5), Node(8, -7, -6) >>,
      << EmptyLeaf, EmptyLeaf, EmptyLeaf, EmptyLeaf, EmptyLeaf, EmptyLeaf,
         Leaf(CONTENTS_SOLID, 65535, 0, 1) >>,
      << 0 >>,
      << Brush(0, 6, CONTENTS_SOLID) >>,
      [i \in 1..6 |-> SideOf(i - 1)],
      0, <<>>, <<>>)

\* an interior right-angle corner: wall A fills x in [-2,0], wall B fills
\* y in [-2,0]; the room is x > 0, y > 0
\* planes 0..5: wall A; 6..11: wall B; 12, 13: x = 0 and y = 0 facing +
CornerLevel ==
    BspFile(
      BoxPlanes(-2, 0, -2, 8, -8, 8) \o BoxPlanes(0, 8, -2, 0, -8, 8)
        \o << Plane(VI(1, 0, 0), R0, 0), Plane(VI(0, 1, 0), R0, 1) >>,
      << Node(12, 1, -1), Node(13, -3, -2) >>,
      << Leaf(CONTENTS_SOLID, 65535, 0, 1), Leaf(CONTENTS_SOLID, 65535, 1, 1),
         EmptyLeaf >>,
      << 0, 1 >>,
      << Brush(0, 6, CONTENTS_SOLID), Brush(6, 6, CONTENTS_SOLID) >>,
      [i \in 1..12 |-> SideOf(i - 1)],
      0, <<>>, <<>>)

\* a window brush x in [-1,6] and a solid block x in [-2,0] that overlap
\* (y, z in [0,4]), listed, window first, by the one leaf in front of x = -8
\* planes 0..5: the window; 6..11: the block; 12: x = -8 facing +
GlassLevel ==
    BspFile(
      BoxPlanes(-1, 6, 0, 4, 0, 4) \o BoxPlanes(-2, 0, 0, 4, 0, 4)
        \o << Plane(VI(1, 0, 0), RI(-8), 0) >>,
      << Node(12, -2, -1) >>,
      << EmptyLeaf, Leaf(MASK_SOLID, 65535, 0, 2) >>,
      << 0, 1 >>,
      << Brush(0, 6, CONTENTS_WINDOW), Brush(6, 6, CONTENTS_SOLID) >>,
      [i \in 1..12 |-> SideOf(i - 1)],
      0, <<>>, <<>>)

\* an obtuse interior corner: wall A fills x in [-2,0]; wall B is the wedge
\* 3x + 4y <= 0, x >= 0, y >= -8, whose slanted face has normal (3/5, 4/5, 0);
\* the room is x > 0, 3x + 4y > 0
\* planes 0..5: wall A; 6..10: wall B, slanted face first; the nodes split on
\* planes 0 (x = 0) and 6 (the slanted face)
WedgeLevel ==
    BspFile(
      BoxPlanes(-2, 0, -8, 8, -8, 8)
        \o << Plane(Vec(Rat(3, 5), Rat(4, 5), R0), R0, 3),
              Plane(VI(-1, 0, 0), R0, 0),
              Plane(VI(0, -1, 0), RI(8), 1),
              Plane(VI(0, 0, 1), RI(8), 2),
              Plane(VI(0, 0, -1), RI(8), 2) >>,
      << Node(0, 1, -1), Node(6, -3, -2) >>,
      << Leaf(CONTENTS_SOLID, 65535, 0, 1), Leaf(CONTENTS_SOLID, 65535, 1, 1),
         EmptyLeaf >>,
      << 0, 1 >>,
      << Brush(0, 6, CONTENTS_SOLID), Brush(6, 5, CONTENTS_SOLID) >>,
      [i \in 1..11 |-> SideOf(i - 1)],
      0, <<>>, <<>>)

\* an acute interior corner: wall A fills x in [-2,0]; wall B is the wedge
\* -3x + 4y <= 0, x <= 8, y >= -8, whose slanted face has normal
\* (-3/5, 4/5, 0); the room is x > 0, -3x + 4y > 0
\* planes 0..5: wall A; 6..10: wall B, slanted face first; the nodes split on
\* planes 0 (x = 0) and 6 (the slanted face)
AcuteLevel ==
    BspFile(
      BoxPlanes(-2, 0, -8, 8, -8, 8)
        \o << Plane(Vec(Rat(-3, 5), Rat(4, 5), R0), R0, 3),
              Plane(VI(1, 0, 0), RI(8), 0),
              Plane(VI(0, -1, 0), RI(8), 1),
              Plane(VI(0, 0, 1), RI(8), 2),
              Plane(VI(0, 0, -1), RI(8), 2) >>,
      << Node(0, 1, -1), Node(6, -3, -2) >>,
      << Leaf(CONTENTS_SOLID, 65535, 0, 1), Leaf(CONTENTS_SOLID, 65535, 1, 1),
         EmptyLeaf >>,
      << 0, 1 >>,
      << Brush(0, 6, CONTENTS_SOLID), Brush(6, 5, CONTENTS_SOLID) >>,
      [i \in 1..11 |-> SideOf(i - 1)],
      0, <<>>, <<>>)

\* one block [0,4]^3 cut by the node plane x = 2 and referenced by the leaves
\* on both sides of it
\* planes 0..5: the block's faces; 6: x = 2 facing +
SharedLevel ==
    BspFile(
      BoxPlanes(0, 4, 0, 4, 0, 4) \o << Plane(VI(1, 0, 0), RI(2), 0) >>,
      << Node(6, -2, -1) >>,
      << Leaf(CONTENTS_SOLID, 65535, 0, 1), Leaf(CONTENTS_SOLID, 65535, 1, 1) >>,
      << 0, 0 >>,
      << Brush(0, 6, CONTENTS_SOLID) >>,
      [i \in 1..6 |-> SideOf(i - 1)],
      0, <<>>, <<>>)

TraceLevels == { CubeLevel, CornerLevel, GlassLevel, SharedLevel }

InitTrace ==
    /\ level \in TraceLevels
    /\ pc = "idle"
    /\ leafq = NoLeafq
    /\ visq = NoVisq
    /\ vis_info = <<>>
    /\ traceq = NoTraceq
    /\ moveq = NoMoveq
    /\ walkq = NoWalkq
    /\ loadq = NoLoadq
    /\ cacheq = NoCacheq
    /\ planeq = NoPlaneq
    /\ renderq = NoRenderq

NextTrace == BoxTraceCall \/ LineTraceCall \/ TraceDone

SpecTrace == InitTrace /\ [][NextTrace]_vars

(***************************************************************************)
(* Movement: BspFile::trace_move, one iteration of its for loop per step.  *)
(* moveq.exit is how the last iteration left the loop body: "next",        *)
(* "break", "return" (the all_solid return) or "panic" (an index out of    *)
(* bounds); moveq.written lists the indices of `planes` written so far.    *)
(***************************************************************************)
NUM_ITERATIONS == 8

OVERCLIP == Rat(101, 100)

\* cur_velocity - planes[i] * (dot(cur_velocity, planes[i]) * 1.01)
clip_velocity(v, n) == VSub(v, VScale(n, RMul(Dot(v, n), OVERCLIP)))

\* the loop `for i in 0..num_planes` without its early exit
RECURSIVE clip_planes_all(_, _, _, _)
clip_planes_all(i, v, planes, num_planes) ==
    IF i >= num_planes THEN [velocity |-> v, broke_i |-> FALSE, clips |-> <<>>]
    ELSE Bind(clip_velocity(v, planes[i + 1]), LAMBDA v1 :
         Bind(clip_planes_all(i + 1, v1, planes, num_planes), LAMBDA r :
           [r EXCEPT !.clips = <<i>> \o @,
                     !.broke_i = ~ \E j \in 0..(num_planes - 1) :
                                      j # num_planes - 1
                                      /\ RLt(Dot(r.velocity, planes[j + 1]), R0)]))

\* the loop `for i in 0..num_planes`, from i on: the velocity after it,
\* whether it ended by the break that sets broke_i, and the planes clipped
\* against, in order
RECURSIVE clip_planes(_, _, _, _)
clip_planes(i, v, planes, num_planes) ==
    IF i >= num_planes THEN [velocity |-> v, broke_i |-> FALSE, clips |-> <<>>]
    ELSE Bind(clip_velocity(v, planes[i + 1]), LAMBDA v1 :
           IF \E j \in 0..(num_planes - 1) :
                  j # i /\ RLt(Dot(v1, planes[j + 1]), R0)
           THEN Bind(clip_planes(i + 1, v1, planes, num_planes), LAMBDA r :
                  [r EXCEPT !.clips = <<i>> \o @])
           ELSE [velocity |-> v1, broke_i |-> TRUE, clips |-> <<i>>])

\* the loop body from the store of the plane on, without the redirection
\* along the crease
move_slide_no_crease(q, normal) ==
    Bind([q EXCEPT !.planes[q.num_planes + 1] = normal,
                   !.num_planes = q.num_planes + 1,
                   !.written = Append(q.written, q.num_planes)],
         LAMBDA q2 :
    Bind(clip_planes(0, q2.cur_velocity, q2.planes, q2.num_planes), LAMBDA c :
    Bind([q2 EXCEPT !.clips = c.clips, !.clipped = c.velocity], LAMBDA q3 :
      IF c.broke_i
      THEN [q3 EXCEPT !.cur_velocity = c.velocity, !.exit = "next"]
      ELSE IF q2.num_planes # 2
      THEN [q3 EXCEPT !.cur_velocity = c.velocity, !.exit = "break"]
      ELSE [q3 EXCEPT !.cur_velocity = c.velocity, !.exit = "next"])))

\* the loop body from `planes[num_planes] = plane.normal` on
move_slide(q, normal) ==
    Bind([q EXCEPT !.planes[q.num_planes + 1] = normal,
                   !.num_planes = q.num_planes + 1,
                   !.written = Append(q.written, q.num_planes)],
         LAMBDA q2 :
    Bind(clip_planes(0, q2.cur_velocity, q2.planes, q2.num_planes), LAMBDA c :
    Bind([q2 EXCEPT !.clips = c.clips, !.clipped = c.velocity], LAMBDA q3 :
      IF c.broke_i
      THEN [q3 EXCEPT !.cur_velocity = c.velocity, !.exit = "next"]
      ELSE IF q2.num_planes # 2
      THEN [q3 EXCEPT !.cur_velocity = c.velocity, !.exit = "break"]
      ELSE Bind(Cross(q2.planes[1], q2.planes[2]), LAMBDA dir :
             [q3 EXCEPT !.cur_velocity = VScale(dir, Dot(dir, c.velocity)),
                        !.exit = "next"]))))

\* the loop body after the box trace, with the plane stored one slot late
move_after_trace_late_slot(q, trace) ==
    IF trace.all_solid
    THEN [q EXCEPT !.trace = trace, !.exit = "return",
                   !.ret = [pos |-> q.cur_pos, vel |-> VZero]]
    ELSE
      Bind(IF RGt(trace.fraction, R0)
           THEN [q EXCEPT !.trace = trace, !.num_planes = 0,
                          !.cur_pos = trace.end_pos,
                          !.remaining_delta =
                             RSub(q.remaining_delta,
                                  RMul(q.remaining_delta, trace.fraction))]
           ELSE [q EXCEPT !.trace = trace],
           LAMBDA q1 :
      IF trace.fraction = R1 THEN [q1 EXCEPT !.exit = "break"]
      ELSE IF trace.plane < 0 \/ trace.plane >= Len(level.planes)
      THEN [q1 EXCEPT !.exit = "panic"]
      ELSE IF q1.num_planes + 1 >= NUM_ITERATIONS
      THEN [q1 EXCEPT !.exit = "panic"]
      ELSE move_slide([q1 EXCEPT !.num_planes = q1.num_planes + 1],
                      level.planes[trace.plane + 1].normal))

\* the loop body after the box trace, with the all_solid return keeping the
\* velocity
move_after_trace_keep_velocity(q, trace) ==
    IF trace.all_solid
    THEN [q EXCEPT !.trace = trace, !.exit = "return",
                   !.ret = [pos |-> q.cur_pos, vel |-> q.cur_velocity]]
    ELSE
      Bind(IF RGt(trace.fraction, R0)
           THEN [q EXCEPT !.trace = trace, !.num_planes = 0,
                          !.cur_pos = trace.end_pos,
                          !.remaining_delta =
                             RSub(q.remaining_delta,
                                  RMul(q.remaining_delta, trace.fraction))]
           ELSE [q EXCEPT !.trace = trace],
           LAMBDA q1 :
      IF trace.fraction = R1 THEN [q1 EXCEPT !.exit = "break"]
      ELSE IF trace.plane < 0 \/ trace.plane >= Len(level.planes)
      THEN [q1 EXCEPT !.exit = "panic"]
      ELSE IF q1.num_planes >= NUM_ITERATIONS
      THEN [q1 EXCEPT !.exit = "panic"]
      ELSE move_slide(q1, level.planes[trace.plane + 1].normal))

\* the loop body after the box trace, with the all_solid return reporting the
\* origin as the position
move_after_trace_stuck_at_origin(q, trace) ==
    IF trace.all_solid
    THEN [q EXCEPT !.trace = trace, !.exit = "return",
                   !.ret = [pos |-> VZero, vel |-> VZero]]
    ELSE
      Bind(IF RGt(trace.fraction, R0)
           THEN [q EXCEPT !.trace = trace, !.num_planes = 0,
                          !.cur_pos = trace.end_pos,
                          !.remaining_delta =
                             RSub(q.remaining_delta,
                                  RMul(q.remaining_delta, trace.fraction))]
           ELSE [q EXCEPT !.trace = trace],
           LAMBDA q1 :
      IF trace.fraction = R1 THEN [q1 EXCEPT !.exit = "break"]
      ELSE IF trace.plane < 0 \/ trace.plane >= Len(level.planes)
      THEN [q1 EXCEPT !.exit = "panic"]
      ELSE IF q1.num_planes >= NUM_ITERATIONS
      THEN [q1 EXCEPT !.exit = "panic"]
      ELSE move_slide(q1, level.planes[trace.plane + 1].normal))

\* the loop body after the box trace, moving to the end of the sweep and not
\* to the end of the trace
move_after_trace_full_step(q, trace) ==
    IF trace.all_solid
    THEN [q EXCEPT !.trace = trace, !.exit = "return",
                   !.ret = [pos |-> q.cur_pos, vel |-> VZero]]
    ELSE
      Bind(IF RGt(trace.fraction, R0)
           THEN [q EXCEPT !.trace = trace, !.num_planes = 0,
                          !.cur_pos = VAdd(q.cur_pos,
                                            VScale(q.cur_velocity, q.remaining_delta)),
                          !.remaining_delta =
                             RSub(q.remaining_delta,
                                  RMul(q.remaining_delta, trace.fraction))]
           ELSE [q EXCEPT !.trace = trace],
           LAMBDA q1 :
      IF trace.fraction = R1 THEN [q1 EXCEPT !.exit = "break"]
      ELSE IF trace.plane < 0 \/ trace.plane >= Len(level.planes)
      THEN [q1 EXCEPT !.exit = "panic"]
      ELSE IF q1.num_planes >= NUM_ITERATIONS
      THEN [q1 EXCEPT !.exit = "panic"]
      ELSE move_slide(q1, level.planes[trace.plane + 1].normal))

\* the loop body after the box trace, the remaining time left as it was
move_after_trace_keep_delta(q, trace) ==
    IF trace.all_solid
    THEN [q EXCEPT !.trace = trace, !.exit = "return",
                   !.ret = [pos |-> q.cur_pos, vel |-> VZero]]
    ELSE
      Bind(IF RGt(trace.fraction, R0)
           THEN [q EXCEPT !.trace = trace, !.num_planes = 0,
                          !.cur_pos = trace.end_pos]
           ELSE [q EXCEPT !.trace = trace],
           LAMBDA q1 :
      IF trace.fraction = R1 THEN [q1 EXCEPT !.exit = "break"]
      ELSE IF trace.plane < 0 \/ trace.plane >= Len(level.planes)
      THEN [q1 EXCEPT !.exit = "panic"]
      ELSE IF q1.num_planes >= NUM_ITERATIONS
      THEN [q1 EXCEPT !.exit = "panic"]
      ELSE move_slide(q1, level.planes[trace.plane + 1].normal))

\* the loop body after `let trace = self.boxtrace(...)`
move_after_trace(q, trace) ==
    IF trace.all_solid
    THEN [q EXCEPT !.trace = trace, !.exit = "return",
                   !.ret = [pos |-> q.cur_pos, vel |-> VZero]]
    ELSE
      Bind(IF RGt(trace.fraction, R0)
           THEN [q EXCEPT !.trace = trace, !.num_planes = 0,
                          !.cur_pos = trace.end_pos,
                          !.remaining_delta =
                             RSub(q.remaining_delta,
                                  RMul(q.remaining_delta, trace.fraction))]
           ELSE [q EXCEPT !.trace = trace],
           LAMBDA q1 :
      IF trace.fraction = R1 THEN [q1 EXCEPT !.exit = "break"]
      ELSE IF trace.plane < 0 \/ trace.plane >= Len(level.planes)
      THEN [q1 EXCEPT !.exit = "panic"]
      ELSE IF q1.num_planes >= NUM_ITERATIONS
      THEN [q1 EXCEPT !.exit = "panic"]
      ELSE move_slide(q1, level.planes[trace.plane + 1].normal))

\* one iteration of `for _iter in 0..NUM_ITERATIONS`
trace_move_iter(q) ==
    Bind(VAdd(q.cur_pos, VScale(q.cur_velocity, q.remaining_delta)), LAMBDA end :
    Bind(boxtrace(MASK_SOLID, q.cur_pos, end, q.box_extents).trace, LAMBDA trace :
      move_after_trace(q, trace)))

MoveStarts ==
    { VI(3, 3, 2), VI(3, 2, 2), VI(1, 3, 2), VI(-1, 3, 2),
      Vec(Rat(101, 100), RI(3), RI(2)),
      Vec(Rat(201, 200), Rat(201, 200), RI(2)) }
\* in the wedge: a start from which the velocity (-4, -4, 0) leads to the
\* point DIST_EPSILON in front of both walls, and a start inside wall A
WedgeStarts ==
    { Vec(Rat(101, 100), Rat(201, 200), RI(2)), VI(-1, 3, 2) }
\* in the acute corner: the point DIST_EPSILON in front of both walls
AcuteStarts == { Vec(Rat(1, 100), Rat(1, 50), RI(2)) }
MoveStartsIn(l) ==
    IF l = WedgeLevel THEN WedgeStarts
    ELSE IF l = AcuteLevel THEN AcuteStarts
    ELSE MoveStarts
MoveVelocities ==
    { VI(0, 0, 0), VI(-4, 0, 0), VI(-8, 0, 0), VI(-4, -4, 0), VI(-4, -2, 0),
      VI(-4, -4, 2), VI(4, 4, 0) }
MoveDeltas  == { R1, Rat(1, 2) }
MoveExtents == { VI(1, 1, 1), VI(0, 0, 0) }

MoveCall ==
    /\ pc = "idle"
    /\ \E s \in MoveStartsIn(level), v \in MoveVelocities, dt \in MoveDeltas, x \in MoveExtents :
         moveq' = [start_pos |-> s, velocity |-> v, delta |-> dt, box_extents |-> x,
                   cur_pos |-> s, cur_velocity |-> v, remaining_delta |-> dt,
                   planes |-> [i \in 1..NUM_ITERATIONS |-> VZero], num_planes |-> 0,
                   iter |-> 0, exit |-> "next", trace |-> NewTrace,
                   ret |-> [pos |-> VZero, vel |-> VZero],
                   written |-> <<>>, ntraces |-> 0, pos_before |-> s,
                   vel_before |-> v, clips |-> <<>>, clipped |-> v,
                   rem_before |-> dt, planes_before |-> <<>>]
    /\ pc' = "move"
    /\ UNCHANGED <<level, renderq, planeq, cacheq, loadq, walkq, leafq, visq, vis_info, traceq>>

MoveIter ==
    /\ pc = "move"
    /\ moveq.exit = "next"
    /\ moveq.iter < NUM_ITERATIONS
    /\ \E q \in { trace_move_iter([moveq EXCEPT !.clips = <<>>]) } :
         /\ moveq' = [q EXCEPT !.iter = moveq.iter + 1,
                               !.ntraces = moveq.ntraces + 1,
                               !.pos_before = moveq.cur_pos,
                               !.vel_before = moveq.cur_velocity,
                               !.rem_before = moveq.remaining_delta,
                               !.planes_before =
                                  SubSeq(moveq.planes, 1, moveq.num_planes)]
         /\ pc' = CASE q.exit = "return" -> "moved"
                   [] q.exit = "panic"  -> "panic"
                   [] OTHER             -> "move"
    /\ UNCHANGED <<level, renderq, planeq, cacheq, loadq, walkq, leafq, visq, vis_info, traceq>>

\* the loop has ended by break or by its bound: (cur_pos, cur_velocity)
MoveReturn ==
    /\ pc = "move"
    /\ moveq.exit = "break" \/ moveq.iter >= NUM_ITERATIONS
    /\ moveq' = [moveq EXCEPT !.ret = [pos |-> moveq.cur_pos,
                                        vel |-> moveq.cur_velocity]]
    /\ pc' = "moved"
    /\ UNCHANGED <<level, renderq, planeq, cacheq, loadq, walkq, leafq, visq, vis_info, traceq>>

MoveDone ==
    /\ pc \in {"moved", "panic"}
    /\ pc' = "idle"
    /\ moveq' = NoMoveq
    /\ UNCHANGED <<level, renderq, planeq, cacheq, loadq, walkq, leafq, visq, vis_info, traceq>>

MoveLevels == { CornerLevel, GlassLevel, WedgeLevel, AcuteLevel }

InitMove ==
    /\ level \in MoveLevels
    /\ pc = "idle"
    /\ leafq = NoLeafq
    /\ visq = NoVisq
    /\ vis_info = <<>>
    /\ traceq = NoTraceq
    /\ moveq = NoMoveq
    /\ walkq = NoWalkq
    /\ loadq = NoLoadq
    /\ cacheq = NoCacheq
    /\ planeq = NoPlaneq
    /\ renderq = NoRenderq

NextMove == MoveCall \/ MoveIter \/ MoveReturn \/ MoveDone

SpecMove == InitMove /\ [][NextMove]_vars

(***************************************************************************)
(* Traces and moves together: the callers of boxtrace and linetrace and    *)
(* trace_move, which calls boxtrace once per iteration.                    *)
(***************************************************************************)
InitCollide ==
    /\ level \in TraceLevels \cup MoveLevels
    /\ pc = "idle"
    /\ leafq = NoLeafq
    /\ visq = NoVisq
    /\ vis_info = <<>>
    /\ traceq = NoTraceq
    /\ moveq = NoMoveq
    /\ walkq = NoWalkq
    /\ loadq = NoLoadq
    /\ cacheq = NoCacheq
    /\ planeq = NoPlaneq
    /\ renderq = NoRenderq

NextCollide == NextTrace \/ NextMove

SpecCollide == InitCollide /\ [][NextCollide]_vars

(***************************************************************************)
(* Visibility test of a box (bsp_renderer.rs: check_vis) and the three     *)
(* traversals of the node tree made for one position: calc_leaf_index, a   *)
(* zero-length linetrace and check_vis.                                    *)
(* r stands for the renderer and the leaf lump: r.visible_leaves,          *)
(* r.bbox_min and r.bbox_max, one entry per leaf.                          *)
(***************************************************************************)
get_bounds_corners(center, extents) ==
    << VAdd(center, Vec(RNeg(extents.x), RNeg(extents.y), RNeg(extents.z))),
       VAdd(center, Vec(extents.x, RNeg(extents.y), RNeg(extents.z))),
       VAdd(center, Vec(RNeg(extents.x), extents.y, RNeg(extents.z))),
       VAdd(center, Vec(extents.x, extents.y, RNeg(extents.z))),
       VAdd(center, Vec(RNeg(extents.x), RNeg(extents.y), extents.z)),
       VAdd(center, Vec(extents.x, RNeg(extents.y), extents.z)),
       VAdd(center, Vec(RNeg(extents.x), extents.y, extents.z)),
       VAdd(center, Vec(extents.x, extents.y, extents.z)) >>

\* check_vis_leaf with strict comparisons: boxes that only touch do not overlap
check_vis_leaf_open(r, leaf_index, center, extents) ==
    IF ~r.visible_leaves[leaf_index + 1] THEN FALSE
    ELSE
      Bind(VSub(center, extents), LAMBDA min :
      Bind(VAdd(center, extents), LAMBDA max :
        /\ RLt(min.x, r.bbox_max[leaf_index + 1].x)
        /\ RGt(max.x, r.bbox_min[leaf_index + 1].x)
        /\ RLt(min.y, r.bbox_max[leaf_index + 1].y)
        /\ RGt(max.y, r.bbox_min[leaf_index + 1].y)
        /\ RLt(min.z, r.bbox_max[leaf_index + 1].z)
        /\ RGt(max.z, r.bbox_min[leaf_index + 1].z)))

check_vis_leaf(r, leaf_index, center, extents) ==
    IF ~r.visible_leaves[leaf_index + 1] THEN FALSE
    ELSE
      Bind(VSub(center, extents), LAMBDA min :
      Bind(VAdd(center, extents), LAMBDA max :
        /\ RLe(min.x, r.bbox_max[leaf_index + 1].x)
        /\ RGe(max.x, r.bbox_min[leaf_index + 1].x)
        /\ RLe(min.y, r.bbox_max[leaf_index + 1].y)
        /\ RGe(max.y, r.bbox_min[leaf_index + 1].y)
        /\ RLe(min.z, r.bbox_max[leaf_index + 1].z)
        /\ RGe(max.z, r.bbox_min[leaf_index + 1].z)))

\* check_vis_recursive taking a negative reference c for leaf -c
RECURSIVE check_vis_recursive_leaf_minus_c(_, _, _, _, _, _)
check_vis_recursive_leaf_minus_c(node_index, center, extents, corners, r, st) ==
    IF st.panic THEN st
    ELSE IF node_index < 0
    THEN Bind(-node_index, LAMBDA leaf_index :
           IF leaf_index < 0 \/ leaf_index >= Len(level.leaves)
           THEN [st EXCEPT !.panic = TRUE, !.ret = FALSE]
           ELSE [st EXCEPT
                   !.leaves = Append(st.leaves, [ref |-> node_index, leaf |-> leaf_index]),
                   !.ret = check_vis_leaf(r, leaf_index, center, extents)])
    ELSE
      Bind(level.planes[level.nodes[node_index + 1].plane + 1], LAMBDA split_plane :
      Bind({ PlaneSide(corners[i], split_plane) : i \in 1..8 }, LAMBDA ds :
      Bind([st EXCEPT !.nodes = Append(st.nodes, node_index), !.ret = FALSE],
           LAMBDA st1 :
      Bind(IF \E d \in ds : RGe(d, R0)
           THEN check_vis_recursive_leaf_minus_c(level.nodes[node_index + 1].front_child,
                                    center, extents, corners, r, st1)
           ELSE st1,
           LAMBDA sf :
        IF sf.ret \/ sf.panic THEN sf
        ELSE IF \E d \in ds : RLe(d, R0)
        THEN check_vis_recursive_leaf_minus_c(level.nodes[node_index + 1].back_child,
                                 center, extents, corners, r, sf)
        ELSE sf))))

\* BspMapRenderer::check_vis_recursive; st.nodes and st.leaves list the
\* references followed, st.ret is the value returned
RECURSIVE check_vis_recursive(_, _, _, _, _, _)
check_vis_recursive(node_index, center, extents, corners, r, st) ==
    IF st.panic THEN st
    ELSE IF node_index < 0
    THEN Bind(-node_index - 1, LAMBDA leaf_index :
           IF leaf_index < 0 \/ leaf_index >= Len(level.leaves)
           THEN [st EXCEPT !.panic = TRUE, !.ret = FALSE]
           ELSE [st EXCEPT
                   !.leaves = Append(st.leaves, [ref |-> node_index, leaf |-> leaf_index]),
                   !.ret = check_vis_leaf(r, leaf_index, center, extents)])
    ELSE
      Bind(level.planes[level.nodes[node_index + 1].plane + 1], LAMBDA split_plane :
      Bind({ PlaneSide(corners[i], split_plane) : i \in 1..8 }, LAMBDA ds :
      Bind([st EXCEPT !.nodes = Append(st.nodes, node_index), !.ret = FALSE],
           LAMBDA st1 :
      Bind(IF \E d \in ds : RGe(d, R0)
           THEN check_vis_recursive(level.nodes[node_index + 1].front_child,
                                    center, extents, corners, r, st1)
           ELSE st1,
           LAMBDA sf :
        IF sf.ret \/ sf.panic THEN sf
        ELSE IF \E d \in ds : RLe(d, R0)
        THEN check_vis_recursive(level.nodes[node_index + 1].back_child,
                                 center, extents, corners, r, sf)
        ELSE sf))))

check_vis(center, extents, r) ==
    check_vis_recursive(0, center, extents, get_bounds_corners(center, extents), r,
                        [nodes |-> <<>>, leaves |-> <<>>, ret |-> FALSE,
                         panic |-> FALSE])

\* BspFile::calc_leaf_index as one call: the descent from cur_node on
RECURSIVE calc_leaf_index(_, _)
calc_leaf_index(position, cur_node) ==
    IF cur_node >= 0 THEN calc_leaf_index(position, calc_leaf_child(position, cur_node))
    ELSE -cur_node - 1

WalkExtents == { VI(0, 0, 0), VI(1, 1, 1) }

\* every leaf bounded by [-2,8]^3; all leaves visible or none
WalkRenderers ==
    { [visible_leaves |-> [i \in 1..Len(level.leaves) |-> b],
       bbox_min |-> [i \in 1..Len(level.leaves) |-> VI(-2, -2, -2)],
       bbox_max |-> [i \in 1..Len(level.leaves) |-> VI(8, 8, 8)]] : b \in BOOLEAN }

WalkBegin ==
    /\ pc = "idle"
    /\ \E p \in TracePoints, x \in WalkExtents, r \in WalkRenderers :
         walkq' = [step |-> "begun", position |-> p, extents |-> x, renderer |-> r,
                   leaf_index |-> None, trace_leaves |-> None, vis |-> None]
    /\ pc' = "walk"
    /\ UNCHANGED <<level, renderq, planeq, cacheq, loadq, leafq, visq, vis_info, traceq, moveq>>

WalkCalcLeaf ==
    /\ pc = "walk"
    /\ ~walkq.leaf_index.some
    /\ walkq' = [walkq EXCEPT !.leaf_index = Some(calc_leaf_index(walkq.position, 0))]
    /\ UNCHANGED <<level, renderq, planeq, cacheq, loadq, pc, leafq, visq, vis_info, traceq, moveq>>

WalkTrace ==
    /\ pc = "walk"
    /\ ~walkq.trace_leaves.some
    /\ \E t \in { linetrace(MASK_SOLID, walkq.position, walkq.position) } :
         walkq' = [walkq EXCEPT !.trace_leaves = Some(t.leaves)]
    /\ UNCHANGED <<level, renderq, planeq, cacheq, loadq, pc, leafq, visq, vis_info, traceq, moveq>>

WalkCheckVis ==
    /\ pc = "walk"
    /\ ~walkq.vis.some
    /\ \E c \in { check_vis(walkq.position, walkq.extents, walkq.renderer) } :
         walkq' = [walkq EXCEPT !.vis = Some(c)]
    /\ UNCHANGED <<level, renderq, planeq, cacheq, loadq, pc, leafq, visq, vis_info, traceq, moveq>>

WalkDone ==
    /\ pc = "walk"
    /\ walkq.leaf_index.some /\ walkq.trace_leaves.some /\ walkq.vis.some
    /\ walkq' = NoWalkq
    /\ pc' = "idle"
    /\ UNCHANGED <<level, renderq, planeq, cacheq, loadq, leafq, visq, vis_info, traceq, moveq>>

WalkLevels == { CubeLevel, CornerLevel, SharedLevel, WedgeLevel }

InitWalk ==
    /\ level \in WalkLevels
    /\ pc = "idle"
    /\ leafq = NoLeafq
    /\ visq = NoVisq
    /\ vis_info = <<>>
    /\ traceq = NoTraceq
    /\ moveq = NoMoveq
    /\ walkq = NoWalkq
    /\ loadq = NoLoadq
    /\ cacheq = NoCacheq
    /\ planeq = NoPlaneq
    /\ renderq = NoRenderq

NextWalk == WalkBegin \/ WalkCalcLeaf \/ WalkTrace \/ WalkCheckVis \/ WalkDone

SpecWalk == InitWalk /\ [][NextWalk]_vars

(***************************************************************************)
(* The same three traversals on levels whose submodel 0 records head node  *)
(* h: the node lump holds the node of the world (index h) and one more     *)
(* node.  The leaves have no brushes.                                      *)
(***************************************************************************)
\* planes 0: x = 2 facing +, 1: y = 2 facing +
\* the world is cut by x = 2 at node h; the other node cuts by y = 2
HeadLevel(h) ==
    BspFile(
      << Plane(VI(1, 0, 0), RI(2), 0), Plane(VI(0, 1, 0), RI(2), 1) >>,
      [i \in 1..2 |-> IF i - 1 = h THEN Node(0, -2, -1) ELSE Node(1, -4, -3)],
      [i \in 1..4 |-> Leaf(0, U16_MAX, 0, 0)],
      <<>>, <<>>, <<>>, h, <<>>, <<>>)

HeadNodes == 0..1

InitHead ==
    /\ level \in { HeadLevel(h) : h \in HeadNodes }
    /\ pc = "idle"
    /\ leafq = NoLeafq
    /\ visq = NoVisq
    /\ vis_info = <<>>
    /\ traceq = NoTraceq
    /\ moveq = NoMoveq
    /\ walkq = NoWalkq
    /\ loadq = NoLoadq
    /\ cacheq = NoCacheq
    /\ planeq = NoPlaneq
    /\ renderq = NoRenderq

SpecHead == InitHead /\ [][NextWalk]_vars

(***************************************************************************)
(* The renderer's visibility state (bsp_renderer.rs: BspMapRenderer::new   *)
(* and update).  Of update only the visibility bookkeeping is modelled:    *)
(* the geometry built for the visible leaves and the lightmap animation    *)
(* do not write vis, visible_leaves or prev_leaf.                          *)
(* renderq.position and renderq.leaf_index are the argument of the last    *)
(* update and the leaf it found, renderq.rebuilt whether that update took  *)
(* the `leaf_index != self.prev_leaf` branch; renderq.bbox_min/bbox_max    *)
(* stand for the bounding boxes of the leaf lump; renderq.check is the     *)
(* check_vis call in progress.                                             *)
(***************************************************************************)
BspMapRenderer_new ==
    [vis |-> [k \in 1..NumClusters |-> FALSE],
     visible_leaves |-> [i \in 1..Len(level.leaves) |-> FALSE],
     prev_leaf |-> -1]

\* the loop over visible_leaves without the test of the decoded row
mark_visible_leaves_any_cluster(vis) ==
    [i \in 1..Len(level.leaves) |-> level.leaves[i].cluster # U16_MAX]

\* `for i in 0..self.visible_leaves.len()`: the flag of every leaf
mark_visible_leaves(vis) ==
    [i \in 1..Len(level.leaves) |->
        /\ level.leaves[i].cluster # U16_MAX
        /\ vis[level.leaves[i].cluster + 1]]

\* the decode of update without `self.vis.fill(false)`
update_vis_no_fill(vis, leaf) ==
    IF leaf.cluster # U16_MAX
    THEN unpack_vis(leaf.cluster, vis)
    ELSE [info |-> vis, panic |-> FALSE]

\* `self.vis.fill(false)` and the decode of the camera leaf's row
update_vis(vis, leaf) ==
    IF leaf.cluster # U16_MAX
    THEN unpack_vis(leaf.cluster, [k \in 1..Len(vis) |-> FALSE])
    ELSE [info |-> [k \in 1..Len(vis) |-> FALSE], panic |-> FALSE]

\* BspMapRenderer::update on the fields vis, visible_leaves, prev_leaf of r
update(r, position) ==
    Bind(calc_leaf_index(position, 0), LAMBDA leaf_index :
      IF leaf_index # r.prev_leaf
      THEN Bind(update_vis(r.vis, level.leaves[leaf_index + 1]), LAMBDA d :
             IF d.panic
             THEN [r EXCEPT !.step = "panic", !.prev_leaf = leaf_index,
                            !.vis = d.info, !.position = position,
                            !.leaf_index = leaf_index, !.rebuilt = TRUE]
             ELSE [r EXCEPT !.prev_leaf = leaf_index, !.vis = d.info,
                            !.visible_leaves = mark_visible_leaves(d.info),
                            !.position = position, !.leaf_index = leaf_index,
                            !.rebuilt = TRUE])
      ELSE [r EXCEPT !.position = position, !.leaf_index = leaf_index,
                     !.rebuilt = FALSE])

RenderPoints ==
    { VI(1, 1, 1), VI(0, 0, 0), VI(1, -1, 1), VI(-1, 1, 1), VI(-2, -2, 1) }

RenderCenters == { VI(2, 2, 2), VI(0, 0, 2), VI(-1, -1, 2), VI(6, 6, 2) }

RenderExtents == { VI(0, 0, 0), VI(1, 1, 1) }

RenderUpdate ==
    /\ pc = "idle"
    /\ renderq.step = "ready"
    /\ \E p \in RenderPoints : \E r \in { update(renderq, p) } : renderq' = r
    /\ UNCHANGED <<level, planeq, cacheq, loadq, walkq, pc, leafq, visq, vis_info, traceq, moveq>>

RenderCheckVis ==
    /\ pc = "idle"
    /\ renderq.step = "ready"
    /\ \E c \in RenderCenters, x \in RenderExtents :
         \E v \in { check_vis(c, x, renderq) } :
            renderq' = [renderq EXCEPT
                          !.check = Some([center |-> c, extents |-> x, v |-> v])]
    /\ pc' = "checked"
    /\ UNCHANGED <<level, planeq, cacheq, loadq, walkq, leafq, visq, vis_info, traceq, moveq>>

RenderCheckDone ==
    /\ pc = "checked"
    /\ renderq' = [renderq EXCEPT !.check = None]
    /\ pc' = "idle"
    /\ UNCHANGED <<level, planeq, cacheq, loadq, walkq, leafq, visq, vis_info, traceq, moveq>>

\* the quadrants of the xy plane: leaf 0 (x >= 0, y >= 0), leaf 1 (x >= 0,
\* y < 0), leaf 2 (x < 0, y >= 0), leaf 3 (x < 0, y < 0)
\* planes 0: x = 0 facing +, 1: y = 0 facing +
RenderLevel(leaf_clusters, offsets, buf) ==
    BspFile(
      << Plane(VI(1, 0, 0), R0, 0), Plane(VI(0, 1, 0), R0, 1) >>,
      << Node(0, 1, 2), Node(1, -1, -2), Node(1, -3, -4) >>,
      [i \in 1..4 |-> Leaf(0, leaf_clusters[i], 0, 0)],
      <<>>, <<>>, <<>>, 0, offsets, buf)

RenderBytes == {0, 1, 6, 9}

RenderLeafClusters == { <<0, 1, 2, U16_MAX>>, <<U16_MAX, 0, 1, 1>>, <<2, 2, U16_MAX, 0>> }

RenderLevels ==
    { RenderLevel(lc, <<0, 1, 2>>, buf) :
        lc \in RenderLeafClusters, buf \in [1..3 -> RenderBytes] }

\* the bounding boxes of the four leaves; that of leaf 3 stops short of the
\* node planes
RenderBboxMin == << VI(0, 0, 0), VI(0, -4, 0), VI(-4, 0, 0), VI(-4, -4, 0) >>
RenderBboxMax == << VI(4, 4, 4), VI(4, 0, 4), VI(0, 4, 4), VI(-2, -2, 4) >>

InitRender ==
    /\ level \in RenderLevels
    /\ pc = "idle"
    /\ leafq = NoLeafq
    /\ visq = NoVisq
    /\ vis_info = <<>>
    /\ traceq = NoTraceq
    /\ moveq = NoMoveq
    /\ walkq = NoWalkq
    /\ loadq = NoLoadq
    /\ cacheq = NoCacheq
    /\ planeq = NoPlaneq
    /\ renderq = [step |-> "ready", vis |-> BspMapRenderer_new.vis,
                  visible_leaves |-> BspMapRenderer_new.visible_leaves,
                  prev_leaf |-> BspMapRenderer_new.prev_leaf,
                  bbox_min |-> RenderBboxMin, bbox_max |-> RenderBboxMax,
                  position |-> VZero, leaf_index |-> -1, rebuilt |-> FALSE,
                  check |-> None]

NextRender == RenderUpdate \/ RenderCheckVis \/ RenderCheckDone

SpecRender == InitRender /\ [][NextRender]_vars

(***************************************************************************)
(* Level loading: MapData::load_map opens the file and hands the stream    *)
(* to BspFile::new.  A file is its 8 header bytes, the 19 directory        *)
(* entries (held decoded), the words of the visibility header, and its     *)
(* length in bytes; the other payload bytes do not steer the reader.       *)
(***************************************************************************)
BSP_MAGIC == 1347633737     \* 0x50534249
BSP_VERSION == 38
NumLumpInfos == 19          \* directory entries read
NumLumps == 16              \* lumps constructed from them
MaxRecords == 1             \* records per lump in the packed files

BspLumpInfo(offset, length) == [offset |-> offset, length |-> length]

\* ReadBytesExt::read_u32::<LittleEndian> on four bytes
read_u32_le(b) == b[1] + 256 * b[2] + 65536 * b[3] + 16777216 * b[4]

\* the stream: a cursor over the file, failed once a read ran past the end
Reader(pos, ok) == [pos |-> pos, ok |-> ok]

\* std::io::Seek: positions the cursor, beyond the end included
seek(r, offset) == IF r.ok THEN Reader(offset, TRUE) ELSE r

\* a read that would pass the end of the file leaves nothing usable
read_exact_zero_fill(r, n, size) == IF r.ok THEN Reader(r.pos + n, TRUE) ELSE r

\* Read::read_exact of n bytes: all of them or an error (unwrap then panics)
read_exact(r, n, size) ==
    IF r.ok /\ r.pos + n <= size THEN Reader(r.pos + n, TRUE)
    ELSE Reader(r.pos, FALSE)

\* `for _ in 0..num { read one record }`
RECURSIVE read_records(_, _, _, _)
read_records(r, num, record_size, size) ==
    IF num = 0 \/ ~r.ok THEN r
    ELSE read_records(read_exact(r, record_size, size), num - 1, record_size, size)

\* bytes per record of the lumps that are arrays of records, by lump index
\* (0 for the entity and the visibility lumps, which are read otherwise)
LumpRecordSize == <<0, 20, 12, 0, 28, 76, 20, 3, 28, 2, 2, 4, 4, 48, 12, 4>>

\* the result of one lump constructor: the stream after it and what it built
LumpRead(r, count) == [r |-> r, count |-> count]

\* EntityLump::new: the whole lump as one buffer
EntityLump_new(r, info, size) ==
    LumpRead(read_exact(seek(r, info.offset), info.length, size), info.length)

\* PlaneLump::new and the other record-array lumps
RecordLump_new(r, info, record_size, size) ==
    LET num == info.length \div record_size IN
    LumpRead(read_records(seek(r, info.offset), num, record_size, size), num)

\* VisLump::new: cluster count, one (pvs, phs) pair per cluster, then the
\* rest of the lump as bytes; a lump shorter than its header cannot size
\* the buffer
VisLump_new(r, info, file) ==
    LET r0 == read_exact(seek(r, info.offset), 4, file.size)
        num_clusters == file.vis_clusters
        hdr_size == 4 + num_clusters * 8
        r1 == read_records(r0, num_clusters, 8, file.size)
        buf_len == info.length - hdr_size
    IN  IF ~r1.ok THEN LumpRead(r1, 0)
        ELSE IF buf_len < 0 THEN LumpRead(Reader(r1.pos, FALSE), 0)
        ELSE LumpRead(read_exact(r1, buf_len, file.size), num_clusters)

\* the k-th lump constructor called by BspFile::new (k counted from 0)
read_lump(r, k, info, file) ==
    IF k = 0 THEN EntityLump_new(r, info, file.size)
    ELSE IF k = 3 THEN VisLump_new(r, info, file)
    ELSE RecordLump_new(r, info, LumpRecordSize[k + 1], file.size)

\* ---- the files tried ----
HeaderBytes == 8 + 8 * NumLumpInfos

\* bytes of lump k holding n records (the visibility lump: n clusters and
\* n bytes of rows)
LumpBytes(k, n) ==
    IF k = 0 THEN n
    ELSE IF k = 3 THEN 4 + 8 * n + n
    ELSE IF k < NumLumps THEN n * LumpRecordSize[k + 1]
    ELSE 0

RECURSIVE PackedOffset(_, _, _)
PackedOffset(k, n, slack) ==
    IF k = 0 THEN HeaderBytes
    ELSE PackedOffset(k - 1, n, slack) + LumpBytes(k - 1, n)
         + (IF k - 1 < NumLumps /\ k - 1 # 3 THEN slack ELSE 0)

\* lumps laid out one after the other behind the directory; `slack` bytes
\* too many in every lump but the visibility lump
PackedDirectory(n, slack) ==
    [k \in 1..NumLumpInfos |->
        BspLumpInfo(PackedOffset(k - 1, n, slack),
                    LumpBytes(k - 1, n)
                    + (IF k - 1 < NumLumps /\ k - 1 \notin {0, 3} THEN slack ELSE 0))]

MagicBytes == {<<73, 66, 83, 80>>, <<80, 83, 66, 73>>, <<73, 66, 83, 81>>}
VersionBytes == {<<38, 0, 0, 0>>, <<0, 0, 0, 38>>, <<46, 0, 0, 0>>}

\* the files of one layout, cut off after every number of bytes
BspFilesOf(n, slack) ==
    LET lumps == PackedDirectory(n, slack)
        full == lumps[NumLumpInfos].offset
    IN  { [magic |-> m, version |-> v, lumps |-> lumps,
           vis_clusters |-> n, size |-> size] :
            m \in MagicBytes, v \in VersionBytes, size \in 0..full }

BspFiles == UNION { BspFilesOf(n, slack) : n \in 0..MaxRecords, slack \in {0, 1} }

\* ---- MapData::load_map, step by step ----
LoadPanic(q, why) ==
    [q EXCEPT !.step = "done", !.outcome = "panic", !.why = why]

\* FileStream::open(..).unwrap()
load_map_open(q) ==
    IF ~q.opens THEN LoadPanic(q, "open") ELSE [q EXCEPT !.step = "magic"]

\* read the magic, compare
BspFile_new_magic(q) ==
    LET r == read_exact(q.r, 4, q.file.size)
        magic == read_u32_le(q.file.magic)
    IN  IF ~r.ok THEN LoadPanic(q, "eof")
        ELSE IF magic # BSP_MAGIC
        THEN LoadPanic([q EXCEPT !.r = r, !.checked = Append(@, "magic")], "magic")
        ELSE [q EXCEPT !.r = r, !.checked = Append(@, "magic"), !.step = "version"]

\* read the version, compare
BspFile_new_version(q) ==
    LET r == read_exact(q.r, 4, q.file.size)
        version == read_u32_le(q.file.version)
    IN  IF ~r.ok THEN LoadPanic(q, "eof")
        ELSE IF version # BSP_VERSION
        THEN LoadPanic([q EXCEPT !.r = r, !.checked = Append(@, "version")], "version")
        ELSE [q EXCEPT !.r = r, !.checked = Append(@, "version"),
                       !.step = "directory"]

\* one pass of `for _ in 0..19`: offset, then length
BspFile_new_lump_info(q) ==
    LET r == read_exact(read_exact(q.r, 4, q.file.size), 4, q.file.size)
        info == q.file.lumps[Len(q.bsp_lumps) + 1]
    IN  IF ~r.ok THEN LoadPanic(q, "eof")
        ELSE [q EXCEPT !.r = r, !.bsp_lumps = Append(@, info),
                       !.step = IF Len(q.bsp_lumps) + 1 = NumLumpInfos
                                THEN "lumps" ELSE "directory"]

\* the next lump constructor; after the last one the BspFile is built
BspFile_new_lump(q) ==
    LET k == Len(q.built)
        res == read_lump(q.r, k, q.bsp_lumps[k + 1], q.file)
    IN  IF ~res.r.ok THEN LoadPanic(q, "eof")
        ELSE IF k + 1 = NumLumps
        THEN [q EXCEPT !.r = res.r, !.built = Append(@, res.count),
                       !.step = "done", !.outcome = "loaded",
                       !.map = Some(Append(q.built, res.count))]
        ELSE [q EXCEPT !.r = res.r, !.built = Append(@, res.count)]

LoadIdle ==
    /\ pc = "idle"
    /\ loadq.step = "none"

LoadCall ==
    /\ LoadIdle
    /\ \E opens \in BOOLEAN, file \in BspFiles :
         loadq' = [step |-> "open", opens |-> opens, file |-> file,
                   r |-> Reader(0, TRUE), checked |-> <<>>, bsp_lumps |-> <<>>,
                   built |-> <<>>, outcome |-> "running", why |-> "",
                   map |-> None]
    /\ pc' = "load"
    /\ UNCHANGED <<level, renderq, planeq, cacheq, walkq, leafq, visq, vis_info, traceq, moveq>>

LoadStep(step, F(_)) ==
    /\ pc = "load"
    /\ loadq.step = step
    /\ \E q \in {F(loadq)} : loadq' = q
    /\ UNCHANGED <<level, renderq, planeq, pc, cacheq, walkq, leafq, visq, vis_info, traceq, moveq>>

LoadOpen == LoadStep("open", load_map_open)
LoadMagic == LoadStep("magic", BspFile_new_magic)
LoadVersion == LoadStep("version", BspFile_new_version)
LoadLumpInfo == LoadStep("directory", BspFile_new_lump_info)
LoadLump == LoadStep("lumps", BspFile_new_lump)

LoadDone ==
    /\ pc = "load"
    /\ loadq.step = "done"
    /\ loadq' = NoLoadq
    /\ pc' = "idle"
    /\ UNCHANGED <<level, renderq, planeq, cacheq, walkq, leafq, visq, vis_info, traceq, moveq>>

InitLoad ==
    /\ level = CubeLevel
    /\ pc = "idle"
    /\ leafq = NoLeafq
    /\ visq = NoVisq
    /\ vis_info = <<>>
    /\ traceq = NoTraceq
    /\ moveq = NoMoveq
    /\ walkq = NoWalkq
    /\ loadq = NoLoadq
    /\ cacheq = NoCacheq
    /\ planeq = NoPlaneq
    /\ renderq = NoRenderq

NextLoad ==
    LoadCall \/ LoadOpen \/ LoadMagic \/ LoadVersion \/ LoadLumpInfo
    \/ LoadLump \/ LoadDone

SpecLoad == InitLoad /\ [][NextLoad]_vars

(***************************************************************************)
(* ResourceCache: a map from path to a weak handle on the resource, the    *)
(* strong handles (Arc) being held by the callers of load.  A resource is  *)
(* the number of the loader call that made it; 0 stands for no entry.      *)
(***************************************************************************)
MaxCalls == 5               \* calls of load in one behaviour
MaxRefs == 2                \* strong handles held on one resource

Paths == {"a.ktx", "b.ktx"}
Resources == 1..MaxCalls

\* Result<Arc<TResource>, ResourceError>
Ok(v) == [ok |-> TRUE, v |-> v, e |-> ""]
Err(e) == [ok |-> FALSE, v |-> 0, e |-> e]

\* ResourceCache::new
ResourceCache_new ==
    [step |-> "ready",
     cache |-> [p \in Paths |-> 0],         \* HashMap<String, Weak<TResource>>
     strong |-> [i \in Resources |-> 0],    \* strong count of each resource
     made |-> <<>>,                         \* path of each resource, as loaded
     loader_calls |-> [p \in Paths |-> 0],  \* calls of load_resource
     calls |-> 0,                           \* calls of load
     path |-> "",                           \* argument of the last call
     ret |-> Err("none")]                   \* and what it returned

\* Weak::upgrade: a new strong handle while the count is not zero
upgrade(q, i) ==
    IF q.strong[i] > 0 THEN Some(i) ELSE None

\* the cached entry is dropped and replaced on every load
load_no_reuse(q, path, loaded) ==
    LET called == [q EXCEPT !.calls = @ + 1, !.path = path,
                            !.loader_calls[path] = @ + 1]
        i == Len(q.made) + 1
    IN  IF ~loaded THEN [called EXCEPT !.ret = Err("ParseError")]
        ELSE [called EXCEPT !.made = Append(@, path), !.strong[i] = 1,
                            !.cache[path] = i, !.ret = Ok(i)]

\* ResourceCache::load; `loaded` is whether load_resource returns Ok
load(q, path, loaded) ==
    LET called == [q EXCEPT !.calls = @ + 1, !.path = path]
        res == IF q.cache[path] # 0 THEN upgrade(q, q.cache[path]) ELSE None
    IN  IF q.cache[path] # 0 /\ res.some
        THEN [called EXCEPT !.strong[res.v] = @ + 1, !.ret = Ok(res.v)]
        ELSE LET removed == [called EXCEPT !.cache[path] = 0,
                                           !.loader_calls[path] = @ + 1]
                 i == Len(q.made) + 1
             IN  IF ~loaded THEN [removed EXCEPT !.ret = Err("ParseError")]
                 ELSE [removed EXCEPT !.made = Append(@, path),
                                      !.strong[i] = 1,
                                      !.cache[path] = i,
                                      !.ret = Ok(i)]

\* a caller asks for a resource and keeps the handle it gets
CacheLoad ==
    /\ cacheq.step = "ready"
    /\ cacheq.calls < MaxCalls
    /\ \E path \in Paths, loaded \in BOOLEAN :
         /\ (cacheq.cache[path] # 0 /\ cacheq.strong[cacheq.cache[path]] > 0)
               => cacheq.strong[cacheq.cache[path]] < MaxRefs
         /\ \E q \in {load(cacheq, path, loaded)} : cacheq' = q
    /\ UNCHANGED <<level, renderq, planeq, loadq, walkq, pc, leafq, visq, vis_info, traceq, moveq>>

\* a caller drops one of its handles
CacheDrop ==
    /\ cacheq.step = "ready"
    /\ \E i \in 1..Len(cacheq.made) :
         /\ cacheq.strong[i] > 0
         /\ cacheq' = [cacheq EXCEPT !.strong[i] = @ - 1]
    /\ UNCHANGED <<level, renderq, planeq, loadq, walkq, pc, leafq, visq, vis_info, traceq, moveq>>

InitCache ==
    /\ level = CubeLevel
    /\ pc = "idle"
    /\ leafq = NoLeafq
    /\ visq = NoVisq
    /\ vis_info = <<>>
    /\ traceq = NoTraceq
    /\ moveq = NoMoveq
    /\ walkq = NoWalkq
    /\ loadq = NoLoadq
    /\ cacheq = ResourceCache_new
    /\ planeq = NoPlaneq
    /\ renderq = NoRenderq

NextCache == CacheLoad \/ CacheDrop

SpecCache == InitCache /\ [][NextCache]_vars

(***************************************************************************)
(* One plane against one segment: the distances trace_brush computes for   *)
(* a brush side and those recursive_trace computes for a node on the same  *)
(* plane.                                                                  *)
(***************************************************************************)
OffsetNormals ==
    { VI(1, 0, 0), VI(0, 1, 0), VI(0, 0, 1), VI(-1, 0, 0), VI(0, -1, 0),
      VI(0, 0, -1),
      Vec(Rat(3, 5), Rat(4, 5), R0), Vec(Rat(-3, 5), Rat(4, 5), R0),
      Vec(R0, Rat(-3, 5), Rat(-4, 5)), Vec(Rat(2, 3), Rat(-2, 3), Rat(1, 3)) }
OffsetDistances == { RI(0), RI(2), Rat(-3, 2) }
OffsetTypes == 0..3
OffsetExtents ==
    { None, Some(VI(0, 0, 0)), Some(VI(1, 1, 1)), Some(Vec(RI(1), RI(2), Rat(1, 2))) }
OffsetPoints == { VI(3, 3, 2), Vec(Rat(-1, 2), RI(1), RI(-4)), VI(0, 0, 0) }

PlaneCall ==
    /\ pc = "idle"
    /\ planeq.step = "none"
    /\ \E n \in OffsetNormals, d \in OffsetDistances, ty \in OffsetTypes,
          e \in OffsetExtents, s \in OffsetPoints, t \in OffsetPoints :
         LET plane == Plane(n, d, ty)
             a     == TraceArgs(MASK_SOLID, R0, R1, s, t, R0, e)
             dist  == brush_plane_dist(plane, e)
         IN  planeq' = [step |-> "done", plane |-> plane, box_extents |-> e,
                        start |-> s, end |-> t,
                        dist |-> dist,
                        d1 |-> brush_point_dist(s, plane, dist),
                        d2 |-> brush_point_dist(t, plane, dist),
                        node |-> node_distances(plane, a)]
    /\ pc' = "plane"
    /\ UNCHANGED <<level, renderq, cacheq, loadq, walkq, leafq, visq, vis_info, traceq, moveq>>

PlaneDone ==
    /\ pc = "plane"
    /\ planeq' = NoPlaneq
    /\ pc' = "idle"
    /\ UNCHANGED <<level, renderq, cacheq, loadq, walkq, leafq, visq, vis_info, traceq, moveq>>

InitPlane ==
    /\ level = CubeLevel
    /\ pc = "idle"
    /\ leafq = NoLeafq
    /\ visq = NoVisq
    /\ vis_info = <<>>
    /\ traceq = NoTraceq
    /\ moveq = NoMoveq
    /\ walkq = NoWalkq
    /\ loadq = NoLoadq
    /\ cacheq = NoCacheq
    /\ planeq = NoPlaneq
    /\ renderq = NoRenderq

NextPlane == PlaneCall \/ PlaneDone

SpecPlane == InitPlane /\ [][NextPlane]_vars

(***************************************************************************)
(* Claims about calc_leaf_index.                                           *)
(***************************************************************************)
\* the node or leaf reference the descent reached after its i-th visited node
LeafNext(i) ==
    IF i < Len(leafq.visited) THEN leafq.visited[i + 1] ELSE leafq.cur_node

LeafSideAt(i) ==
    PlaneSide(leafq.position,
              level.planes[level.nodes[leafq.visited[i] + 1].plane + 1])

XSplitTable == << Node(0, -1, -2) >>

\* C1: the descent starts at node 0 and at every visited node moves to the
\* front child when dot(point, normal) - distance >= 0 (a point exactly on the
\* plane included) and to the back child otherwise; the result is -child-1 of
\* the first negative child.  With the single plane x = 0: (-1,0,0) gives the
\* back leaf, (1,0,0) and (0,0,0) the front leaf.
C1_FrontOnTie ==
    pc \in {"calc_leaf", "leaf_done"} =>
        /\ Len(leafq.visited) > 0 => leafq.visited[1] = 0
        /\ \A i \in 1..Len(leafq.visited) :
              LET node == level.nodes[leafq.visited[i] + 1]
                  side == LeafSideAt(i)
              IN  /\ side.n >= 0 => LeafNext(i) = node.front_child
                  /\ side.n < 0  => LeafNext(i) = node.back_child
        /\ pc = "leaf_done" =>
              /\ leafq.cur_node < 0
              /\ leafq.ret = -leafq.cur_node - 1
              /\ level.nodes = XSplitTable =>
                    /\ leafq.position = VI(-1, 0, 0) => leafq.ret = 1
                    /\ leafq.position = VI(1, 0, 0)  => leafq.ret = 0
                    /\ leafq.position = VI(0, 0, 0)  => leafq.ret = 0

\* a point exactly on the root plane x = 0 has been resolved to the front leaf
C1_Witness ==
    /\ pc = "leaf_done"
    /\ level.nodes = XSplitTable
    /\ leafq.position = VI(0, 0, 0)
    /\ LeafSideAt(1) = R0
    /\ leafq.ret = 0

NoRepeat(s) == \A i, j \in 1..Len(s) : i # j => s[i] # s[j]

\* C2: on every acyclic node table the descent visits each node at most once
\* (so it ends within Len(nodes) iterations, always at an existing node), and
\* it returns a leaf index >= 0 such that at every node of the path the point
\* is on the side of the plane that leads towards that leaf.
C2_TerminatesInContainingLeaf ==
    pc \in {"calc_leaf", "leaf_done"} =>
        /\ NoRepeat(leafq.visited)
        /\ Len(leafq.visited) <= Len(level.nodes)
        /\ leafq.cur_node < Len(level.nodes)
        /\ pc = "leaf_done" =>
              /\ leafq.ret >= 0
              /\ \A i \in 1..Len(leafq.visited) :
                    LET node == level.nodes[leafq.visited[i] + 1]
                        side == LeafSideAt(i)
                    IN  \/ RGe(side, R0) /\ LeafNext(i) = node.front_child
                        \/ RLt(side, R0) /\ LeafNext(i) = node.back_child

\* a descent through two nodes has returned, one of them left by its back child
C2_Witness ==
    /\ pc = "leaf_done"
    /\ Len(leafq.visited) = 2
    /\ RLt(LeafSideAt(1), R0)
    /\ leafq.ret >= 0

(***************************************************************************)
(* Claims about unpack_vis.                                                *)
(***************************************************************************)
VisByteAt(i) == level.vis_buffer[i + 1]

\* C3: decoding into a cleared buffer starts at the cluster's offset with
\* c = 0; an iteration on a non-zero byte uses that one byte, advances c by 8
\* and marks cluster c+b for each set bit b (least significant first); an
\* iteration on a zero byte uses it and the count n after it, advances c by
\* 8*n and marks nothing; no iteration starts once c has reached the cluster
\* count, and a cluster no literal bit marked stays false.  The row [0x03]
\* for 2 clusters yields exactly {0, 1}.
C3_RunLengthDecode ==
    pc \in {"unpack", "unpack_done"} =>
        /\ Len(visq.iters) > 0 =>
              /\ visq.iters[1].v0 = level.clusters[visq.cluster_index + 1]
              /\ visq.iters[1].c0 = 0
        /\ \A i \in 1..Len(visq.iters) :
              LET h == visq.iters[i] IN
              /\ h.c0 < NumClusters
              /\ i > 1 => h.v0 = visq.iters[i - 1].v1 /\ h.c0 = visq.iters[i - 1].c1
              /\ VisByteAt(h.v0) # 0 => h.v1 = h.v0 + 1 /\ h.c1 = h.c0 + 8
              /\ VisByteAt(h.v0) = 0 =>
                    h.v1 = h.v0 + 2 /\ h.c1 = h.c0 + 8 * VisByteAt(h.v0 + 1)
        /\ \A k \in 0..(NumClusters - 1) :
              vis_info[k + 1] <=>
                \E i \in 1..Len(visq.iters) :
                    LET h == visq.iters[i] IN
                    /\ VisByteAt(h.v0) # 0
                    /\ k - h.c0 \in 0..7
                    /\ (VisByteAt(h.v0) \div (2 ^ (k - h.c0))) % 2 = 1
        /\ pc = "unpack_done" =>
              /\ visq.c >= NumClusters
              /\ (level.vis_buffer = <<3>> /\ NumClusters = 2) =>
                    vis_info = <<TRUE, TRUE>>

\* a decode of 10 clusters has finished after a zero run of 8 and a literal
\* byte that marked clusters 8 and 9
C3_Witness ==
    /\ pc = "unpack_done"
    /\ NumClusters = 10
    /\ Len(visq.iters) = 2
    /\ VisByteAt(visq.iters[1].v0) = 0
    /\ visq.iters[1].c1 = 8
    /\ vis_info[9] /\ vis_info[10] /\ ~vis_info[1]

(***************************************************************************)
(* Claims about the traces.  The geometry of a claim's case is stated on   *)
(* the brushes themselves: SideDist is the signed distance of a point to   *)
(* a brush side's plane moved outward by the box extents.                  *)
(***************************************************************************)
Traced == pc = "traced"

BrushIds == 0..(Len(level.brushes) - 1)

\* the brush_sides indices of brush b
SidesOf(b) ==
    LET brush == level.brushes[b + 1]
    IN  brush.first_brush_side..(brush.first_brush_side + brush.num_brush_sides - 1)

SidePlane(k) == level.planes[level.brush_sides[k + 1].plane + 1]

ExtentAlong(normal, box_extents) ==
    IF box_extents.some
    THEN RAdd(RAdd(RMul(RAbs(normal.x), box_extents.v.x),
                   RMul(RAbs(normal.y), box_extents.v.y)),
              RMul(RAbs(normal.z), box_extents.v.z))
    ELSE R0

SideDist(k, point) ==
    RSub(RSub(Dot(point, SidePlane(k).normal), SidePlane(k).distance),
         ExtentAlong(SidePlane(k).normal, traceq.box_extents))

\* the farthest point of the box is behind every plane of b
BoxWithin(b, point) ==
    \A k \in SidesOf(b) :
        RLe(RAdd(SideDist(k, point),
                 RMul(RI(2), ExtentAlong(SidePlane(k).normal, traceq.box_extents))),
            R0)

WasClipped(b) == \E i \in 1..Len(traceq.clipped) : traceq.clipped[i].brush = b

\* the case of C4: the shape at start is in front of exactly one plane k of
\* brush b, which the trace clips, and behind all its planes at the end; every
\* other brush has a plane that start and end are both in front of, the end
\* by DIST_EPSILON or more
EntersThrough(b, k) ==
    /\ Traced
    /\ WasClipped(b)
    /\ k \in SidesOf(b)
    /\ RGt(SideDist(k, traceq.start), R0)
    /\ \A j \in SidesOf(b) \ {k} : RLe(SideDist(j, traceq.start), R0)
    /\ \A j \in SidesOf(b) : RLt(SideDist(j, traceq.end), R0)
    /\ \A o \in BrushIds \ {b} :
          \E j \in SidesOf(o) : /\ RGt(SideDist(j, traceq.start), R0)
                                /\ RGe(SideDist(j, traceq.end), DIST_EPSILON)

StartsWithin(b) == Traced /\ WasClipped(b) /\ BoxWithin(b, traceq.start)

\* C5 as stated: a trace that starts with its box inside a clipped brush has
\* start_solid = true and all_solid = true.
C5_AllSolid ==
    \A b \in BrushIds :
        StartsWithin(b) => traceq.trace.start_solid /\ traceq.trace.all_solid

\* C5 (amended): a trace that starts with its box inside a clipped brush has
\* start_solid = true; all_solid is true exactly when some clipped brush has
\* both the start and the end of the sweep behind (or on) all its planes moved
\* out by the extents, so a sweep that leaves the brush has all_solid = false.
C5_StartSolid ==
    \A b \in BrushIds :
        StartsWithin(b) =>
            /\ traceq.trace.start_solid
            /\ traceq.trace.all_solid <=>
                  \E o \in BrushIds :
                      /\ WasClipped(o)
                      /\ \A k \in SidesOf(o) :
                            /\ RLe(SideDist(k, traceq.start), R0)
                            /\ RLe(SideDist(k, traceq.end), R0)

\* a box sweep has started and ended inside a brush and is all_solid
C5_Witness ==
    \E b \in BrushIds :
        /\ StartsWithin(b)
        /\ traceq.kind = "box"
        /\ traceq.start # traceq.end
        /\ BoxWithin(b, traceq.end)
        /\ traceq.trace.start_solid /\ traceq.trace.all_solid

\* C6: on return the fraction is in [0,1]; it starts at 1.0 and every
\* trace_brush leaves it unchanged or replaces it by a smaller value; end_pos
\* is end when the fraction is 1.0 and start + (end - start) * fraction
\* otherwise.
C6_FractionMonotone ==
    Traced =>
        /\ RGe(traceq.trace.fraction, R0)
        /\ RLe(traceq.trace.fraction, R1)
        /\ \A i \in 1..Len(traceq.clipped) :
              LET h == traceq.clipped[i] IN
              /\ h.before.fraction =
                    (IF i = 1 THEN R1 ELSE traceq.clipped[i - 1].after.fraction)
              /\ RLe(h.after.fraction, h.before.fraction)
              /\ i = Len(traceq.clipped) => h.after.fraction = traceq.trace.fraction
        /\ traceq.clipped = <<>> => traceq.trace.fraction = R1
        /\ traceq.trace.fraction = R1 => traceq.trace.end_pos = traceq.end
        /\ traceq.trace.fraction # R1 =>
              traceq.trace.end_pos =
                VAdd(traceq.start,
                     VScale(VSub(traceq.end, traceq.start), traceq.trace.fraction))

\* a trace has clipped two brushes, the second lowering the fraction the
\* first had set, and has stopped short of its end
C6_Witness ==
    /\ Traced
    /\ Len(traceq.clipped) = 2
    /\ RLt(traceq.clipped[1].after.fraction, R1)
    /\ RLt(traceq.clipped[2].after.fraction, traceq.clipped[2].before.fraction)
    /\ traceq.trace.end_pos # traceq.end
    /\ traceq.trace.end_pos # traceq.start

\* the case of C7: a box trace of zero length whose box is clear of every brush
ZeroSweepClear ==
    /\ Traced
    /\ traceq.kind = "box"
    /\ traceq.end = traceq.start
    /\ \A b \in BrushIds : \E k \in SidesOf(b) : RGt(SideDist(k, traceq.start), R0)

\* C7: boxtrace with end = start from a position where the box overlaps no
\* brush returns fraction = 1.0 and end_pos = start.
C7_ZeroSweep ==
    ZeroSweepClear =>
        /\ traceq.trace.fraction = R1
        /\ traceq.trace.end_pos = traceq.start

\* a zero-length box trace next to a brush it does not overlap has returned
C7_Witness ==
    /\ ZeroSweepClear
    /\ traceq.box_extents.v = VI(1, 1, 1)
    /\ traceq.leaves # <<>>
    /\ traceq.trace.fraction = R1

(***************************************************************************)
(* Claims about trace_move (SpecMove).                                     *)
(***************************************************************************)
\* a call of trace_move is running or has just ended
Moving == pc \in {"move", "moved", "panic"}

C9_StuckReturn ==
    Moving /\ moveq.ntraces > 0 /\ moveq.trace.all_solid =>
        /\ pc = "moved"
        /\ moveq.exit = "return"
        /\ moveq.ret.vel = VZero
        /\ moveq.ret.pos = moveq.pos_before
        /\ moveq.ntraces = 1 => moveq.ret.pos = moveq.start_pos

\* a call with non-zero velocity has moved, then found itself all_solid in a
\* later iteration and returned
C9_Witness ==
    /\ pc = "moved"
    /\ moveq.trace.all_solid
    /\ moveq.ntraces > 1
    /\ moveq.velocity # VZero
    /\ moveq.ret.pos # moveq.start_pos
    /\ moveq.ret.vel = VZero

\* C10: trace_move called with zero velocity never panics and returns the
\* start position and the zero velocity.
C10_ZeroVelocity ==
    Moving /\ moveq.velocity = VZero =>
        /\ pc # "panic"
        /\ pc = "moved" =>
              /\ moveq.ret.pos = moveq.start_pos
              /\ moveq.ret.vel = VZero

\* a call with zero velocity from a clear position has returned after one
\* unobstructed trace
C10_Witness ==
    /\ pc = "moved"
    /\ moveq.velocity = VZero
    /\ moveq.ntraces = 1
    /\ ~moveq.trace.all_solid
    /\ moveq.trace.fraction = R1
    /\ moveq.ret.pos = moveq.start_pos

\* the iteration just run has stored a second blocking plane next to the
\* first, and the two normals are not parallel
TwoPlanes ==
    /\ pc = "move"
    /\ moveq.ntraces > 0
    /\ moveq.trace.fraction # R1
    /\ moveq.num_planes = 2
    /\ Cross(moveq.planes[1], moveq.planes[2]) # VZero

\* v - n * (1.01 * dot(v, n))
ClippedBy(v, n) == VSub(v, VScale(n, RMul(Rat(101, 100), Dot(v, n))))

\* the velocity the iteration began with, clipped by the first plane, and
\* that one clipped by the second
ClippedOnce == ClippedBy(moveq.vel_before, moveq.planes[1])
ClippedTwice == ClippedBy(ClippedOnce, moveq.planes[2])

\* each clip leaves the velocity driving into the other plane
StillBlocked ==
    /\ RLt(Dot(ClippedOnce, moveq.planes[2]), R0)
    /\ RLt(Dot(ClippedTwice, moveq.planes[1]), R0)

CreaseEpsilon == Rat(1, 10)

\* C11 as stated: with exactly two non-parallel blocking planes accumulated,
\* the velocity resulting from the iteration is orthogonal to both normals
\* (both dot products within a small epsilon of zero).
C11_AlwaysOrthogonal ==
    TwoPlanes =>
        /\ RLe(RAbs(Dot(moveq.cur_velocity, moveq.planes[1])), CreaseEpsilon)
        /\ RLe(RAbs(Dot(moveq.cur_velocity, moveq.planes[2])), CreaseEpsilon)

\* C11 (amended): with exactly two non-parallel blocking planes accumulated,
\* the resulting velocity is along the cross product of the two normals, and
\* so orthogonal to both, when each clip leaves the velocity driving into the
\* other plane; otherwise it is the velocity clipped by the first plane alone
\* (if that does not drive into the second) or by the first and then the
\* second, which slides along the last plane clipped and need not be
\* orthogonal to the other.
C11_CreaseWhenBlocked ==
    TwoPlanes =>
        /\ StillBlocked =>
              /\ Dot(moveq.cur_velocity, moveq.planes[1]) = R0
              /\ Dot(moveq.cur_velocity, moveq.planes[2]) = R0
              /\ moveq.cur_velocity =
                    VScale(Cross(moveq.planes[1], moveq.planes[2]),
                           Dot(Cross(moveq.planes[1], moveq.planes[2]), ClippedTwice))
        /\ RGe(Dot(ClippedOnce, moveq.planes[2]), R0) =>
              moveq.cur_velocity = ClippedOnce
        /\ (/\ RLt(Dot(ClippedOnce, moveq.planes[2]), R0)
            /\ RGe(Dot(ClippedTwice, moveq.planes[1]), R0)) =>
              moveq.cur_velocity = ClippedTwice

\* a move into a right-angle corner has been redirected along the crease and
\* keeps a velocity along it
C11_Witness ==
    /\ TwoPlanes
    /\ StillBlocked
    /\ moveq.cur_velocity # VZero
    /\ Dot(moveq.cur_velocity, moveq.planes[1]) = R0
    /\ Dot(moveq.cur_velocity, moveq.planes[2]) = R0

\* the two walls of CornerLevel face the room through planes 0 (x = 0) and
\* 8 (y = 0)
WallNormalA == level.planes[1].normal
WallNormalB == level.planes[9].normal

\* the distance from the box at p to the wall face f (a plane index)
WallDist(f, p) ==
    RSub(RSub(Dot(level.planes[f + 1].normal, p), level.planes[f + 1].distance),
         RAdd(RAdd(RAbs(RMul(moveq.box_extents.x, level.planes[f + 1].normal.x)),
                   RAbs(RMul(moveq.box_extents.y, level.planes[f + 1].normal.y))),
              RAbs(RMul(moveq.box_extents.z, level.planes[f + 1].normal.z))))

SweepEnd == VAdd(moveq.start_pos, VScale(moveq.velocity, moveq.delta))

\* the case of C12: a call in the right-angle corner has returned; the box
\* started clear of both walls, the velocity has a component into each wall
\* and the whole step would take the box through the faces of both walls
DrivenIntoCorner ==
    /\ pc = "moved"
    /\ level = CornerLevel
    /\ RGt(WallDist(0, moveq.start_pos), R0)
    /\ RGt(WallDist(8, moveq.start_pos), R0)
    /\ RLt(Dot(moveq.velocity, WallNormalA), R0)
    /\ RLt(Dot(moveq.velocity, WallNormalB), R0)
    /\ RLt(WallDist(0, SweepEnd), R0)
    /\ RLt(WallDist(8, SweepEnd), R0)

\* the returned position leaves the box in front of both walls
CornerNotPenetrated ==
    /\ RGt(WallDist(0, moveq.ret.pos), R0)
    /\ RGt(WallDist(8, moveq.ret.pos), R0)

\* 1% of the speed the call was given, as |x| + |y| + |z|
OnePercent ==
    RMul(Rat(1, 100),
         RAdd(RAdd(RAbs(moveq.velocity.x), RAbs(moveq.velocity.y)),
              RAbs(moveq.velocity.z)))

\* C12 as stated: the box penetrates neither wall and the returned velocity
\* is near zero (every component within 1% of the speed given).
C12_CornerStop ==
    DrivenIntoCorner =>
        /\ CornerNotPenetrated
        /\ RLe(RAbs(moveq.ret.vel.x), OnePercent)
        /\ RLe(RAbs(moveq.ret.vel.y), OnePercent)
        /\ RLe(RAbs(moveq.ret.vel.z), OnePercent)

\* C12 (amended): the box penetrates neither wall, and the returned velocity
\* has no component into either wall: along each wall normal it is between 0
\* and 1% of the component the call was given; the component along the edge
\* of the corner is returned as given, so the velocity is near zero only when
\* the call's velocity had no component along the edge.
C12_CornerSlide ==
    DrivenIntoCorner =>
        /\ CornerNotPenetrated
        /\ RGe(Dot(moveq.ret.vel, WallNormalA), R0)
        /\ RGe(Dot(moveq.ret.vel, WallNormalB), R0)
        /\ RLe(Dot(moveq.ret.vel, WallNormalA),
               RMul(Rat(1, 100), RAbs(Dot(moveq.velocity, WallNormalA))))
        /\ RLe(Dot(moveq.ret.vel, WallNormalB),
               RMul(Rat(1, 100), RAbs(Dot(moveq.velocity, WallNormalB))))
        /\ moveq.ret.vel.z = moveq.velocity.z
        /\ moveq.velocity.z = R0 =>
              /\ RLe(RAbs(moveq.ret.vel.x), OnePercent)
              /\ RLe(RAbs(moveq.ret.vel.y), OnePercent)

\* a unit box moved diagonally into the corner has been stopped by both
\* walls at once and returned with zero velocity, DIST_EPSILON off each wall
C12_Witness ==
    /\ DrivenIntoCorner
    /\ moveq.box_extents = VI(1, 1, 1)
    /\ moveq.ntraces = 3
    /\ moveq.written = << 0, 1 >>
    /\ moveq.ret.vel = VZero
    /\ WallDist(0, moveq.ret.pos) = DIST_EPSILON
    /\ WallDist(8, moveq.ret.pos) = DIST_EPSILON

\* the last iteration's trace was blocked and the velocity has been clipped
Blocked ==
    /\ pc = "move"
    /\ moveq.ntraces > 0
    /\ moveq.trace.fraction # R1
    /\ ~moveq.trace.all_solid

\* the indices of the accumulated planes, in accumulation order
AllPlanes == [i \in 1..moveq.num_planes |-> i - 1]

\* the velocity the iteration began with, clipped by the first k accumulated
\* planes in turn
RECURSIVE ClippedThrough(_)
ClippedThrough(k) ==
    IF k = 0 THEN moveq.vel_before
    ELSE ClippedBy(ClippedThrough(k - 1), moveq.planes[k])

\* v has a negative dot product with an accumulated plane other than the k-th
DrivesIntoOther(v, k) ==
    \E j \in 1..moveq.num_planes : j # k /\ RLt(Dot(v, moveq.planes[j]), R0)

\* C20 as stated: after a blocked trace the velocity is clipped against every
\* accumulated plane, in accumulation order, each time by
\* v := v - n * (1.01 * dot(v, n)).
C20_ClipEveryPlane ==
    Blocked =>
        /\ moveq.clips = AllPlanes
        /\ moveq.clipped = ClippedThrough(moveq.num_planes)

\* C20 (amended): after a blocked trace the velocity is clipped against the
\* accumulated planes in accumulation order, each clip applied to the result
\* of the one before, and the clipping stops after the first plane whose clip
\* leaves a velocity with no negative dot product with any other accumulated
\* plane; the planes after that one are not clipped against.
C20_ClipUntilFree ==
    Blocked =>
        /\ Len(moveq.clips) \in 1..moveq.num_planes
        /\ moveq.clips = SubSeq(AllPlanes, 1, Len(moveq.clips))
        /\ moveq.clipped = ClippedThrough(Len(moveq.clips))
        /\ \A k \in 1..(Len(moveq.clips) - 1) :
              DrivesIntoOther(ClippedThrough(k), k)
        /\ Len(moveq.clips) < moveq.num_planes =>
              ~DrivesIntoOther(moveq.clipped, Len(moveq.clips))

\* two planes are held and the clip against the first has freed the velocity:
\* the second was not clipped against
C20_Witness ==
    /\ Blocked
    /\ moveq.num_planes = 2
    /\ moveq.clips = <<0>>
    /\ moveq.clipped # ClippedThrough(2)

\* an iteration of the loop has run and did not panic; moveq.trace is its
\* trace
Iterated ==
    /\ pc \in {"move", "moved"}
    /\ moveq.ntraces > 0

\* the planes held after the iteration, in order
PlanesHeld == SubSeq(moveq.planes, 1, moveq.num_planes)

\* the normal of the plane the trace of the iteration hit
HitNormal == level.planes[moveq.trace.plane + 1].normal

\* C21: an iteration whose trace is not all_solid and has fraction > 0 moves
\* the position to the trace's end position, multiplies the remaining time
\* by (1 - fraction) and empties the plane list before the hit plane is
\* appended; an iteration with fraction = 0 leaves position and remaining
\* time as they were and appends the hit plane to the planes held; the
\* remaining time stays between 0 and the caller's delta.
C21_ProgressResets ==
    Iterated =>
        /\ RGe(moveq.remaining_delta, R0)
        /\ RLe(moveq.remaining_delta, moveq.delta)
        /\ (~moveq.trace.all_solid /\ RGt(moveq.trace.fraction, R0)) =>
              /\ moveq.cur_pos = moveq.trace.end_pos
              /\ moveq.remaining_delta =
                    RMul(moveq.rem_before, RSub(R1, moveq.trace.fraction))
              /\ PlanesHeld = IF moveq.trace.fraction = R1 THEN <<>>
                              ELSE << HitNormal >>
        /\ (~moveq.trace.all_solid /\ moveq.trace.fraction = R0) =>
              /\ moveq.cur_pos = moveq.pos_before
              /\ moveq.remaining_delta = moveq.rem_before
              /\ PlanesHeld = Append(moveq.planes_before, HitNormal)

\* a blocked iteration that made progress while a plane was held: the list
\* holds the new plane alone and time remains
C21_Witness ==
    /\ Iterated
    /\ ~moveq.trace.all_solid
    /\ RGt(moveq.trace.fraction, R0)
    /\ RLt(moveq.trace.fraction, R1)
    /\ moveq.planes_before # <<>>
    /\ moveq.num_planes = 1
    /\ moveq.planes_before[1] # moveq.planes[1]
    /\ RGt(moveq.remaining_delta, R0)
    /\ RLt(moveq.remaining_delta, moveq.rem_before)

(***************************************************************************)
(* Further claims about boxtrace and linetrace (SpecTrace).                *)
(***************************************************************************)
\* the brushes leaf l references, in the order of its list
LeafBrushList(l) ==
    [i \in 1..level.leaves[l + 1].num_leaf_brushes |->
        level.leaf_brushes[level.leaves[l + 1].first_leaf_brush + i]]

\* leaf l has contents in the mask of the call and references a brush
LeafSearched(l) ==
    /\ BitAnd2(level.leaves[l + 1].contents, traceq.content_mask) # 0
    /\ level.leaves[l + 1].num_leaf_brushes > 0

\* the result of the same call made in the present state
SameCall ==
    IF traceq.kind = "box"
    THEN boxtrace(traceq.content_mask, traceq.start, traceq.end, traceq.box_extents.v)
    ELSE linetrace(traceq.content_mask, traceq.start, traceq.end)

\* C13: within one boxtrace or linetrace no brush is clipped twice, whatever
\* leaves reference it; the set of visited brushes is empty when the call
\* starts, so the first brush of the first leaf searched is clipped (if its
\* contents match) starting from the initial Trace; and the result is the
\* one the arguments and the level determine, whatever calls came before.
C13_ClipOnce ==
    Traced =>
        /\ \A i, j \in 1..Len(traceq.clipped) :
              i # j => traceq.clipped[i].brush # traceq.clipped[j].brush
        /\ \A k \in 1..Len(traceq.leaves) :
              (/\ LeafSearched(traceq.leaves[k])
               /\ \A h \in 1..(k - 1) : ~LeafSearched(traceq.leaves[h])
               /\ BitAnd2(level.brushes[LeafBrushList(traceq.leaves[k])[1] + 1].contents,
                          traceq.content_mask) # 0)
              => /\ traceq.clipped # <<>>
                 /\ traceq.clipped[1].brush = LeafBrushList(traceq.leaves[k])[1]
                 /\ traceq.clipped[1].before = NewTrace
        /\ \E r \in { SameCall } :
              /\ traceq.trace = r.trace
              /\ traceq.clipped = r.clipped

\* a trace has searched two leaves that reference the same brush and has
\* clipped that brush once
C13_Witness ==
    /\ Traced
    /\ Len(traceq.leaves) = 2
    /\ LeafSearched(traceq.leaves[1]) /\ LeafSearched(traceq.leaves[2])
    /\ traceq.leaves[1] # traceq.leaves[2]
    /\ LeafBrushList(traceq.leaves[1]) = LeafBrushList(traceq.leaves[2])
    /\ Len(traceq.clipped) = 1
    /\ RGt(traceq.trace.fraction, R0)
    /\ RLt(traceq.trace.fraction, R1)

\* the signed distance of point p to a plane, and the reach of a box of
\* half-extents e along the plane's normal (0 for a line)
SignedDist(plane, p) == RSub(Dot(plane.normal, p), plane.distance)
BoxReach(plane, e) ==
    IF e.some
    THEN RAdd(RAdd(RAbs(RMul(plane.normal.x, e.v.x)),
                   RAbs(RMul(plane.normal.y, e.v.y))),
              RAbs(RMul(plane.normal.z, e.v.z)))
    ELSE R0

\* the children called, in order, by call c of the trace
ChildCalls(c) ==
    LET idx == { k \in 1..Len(traceq.calls) : traceq.calls[k].parent = c }
        RECURSIVE Sorted(_)
        Sorted(S) == IF S = {} THEN <<>>
                     ELSE LET k == CHOOSE x \in S : \A y \in S : x <= y
                          IN  <<traceq.calls[k].node_idx>> \o Sorted(S \ {k})
    IN  Sorted(idx)

\* C22: at a node with plane distances t1, t2 of the segment's ends and box
\* offset o, recursive_trace calls the front child alone when t1 >= o and
\* t2 >= o, the back child alone when t1 < -o and t2 < -o, and otherwise
\* the front child and then the back child; every call gets the whole
\* segment; a line with both ends exactly on the plane goes front only.
C22_NodeSides ==
    Traced =>
        /\ \A k \in 1..Len(traceq.calls) :
              /\ traceq.calls[k].start = traceq.start
              /\ traceq.calls[k].end = traceq.end
        /\ \A i \in 1..Len(traceq.nodes) :
              LET node  == level.nodes[traceq.nodes[i].node_idx + 1]
                  plane == level.planes[node.plane + 1]
                  t1    == SignedDist(plane, traceq.start)
                  t2    == SignedDist(plane, traceq.end)
                  o     == BoxReach(plane, traceq.box_extents)
                  kids  == ChildCalls(traceq.nodes[i].call)
              IN  /\ (RGe(t1, o) /\ RGe(t2, o)) => kids = <<node.front_child>>
                  /\ (RLt(t1, RNeg(o)) /\ RLt(t2, RNeg(o))) =>
                        kids = <<node.back_child>>
                  /\ (~(RGe(t1, o) /\ RGe(t2, o))
                      /\ ~(RLt(t1, RNeg(o)) /\ RLt(t2, RNeg(o)))) =>
                        kids = <<node.front_child, node.back_child>>
                  /\ (traceq.kind = "line" /\ t1 = R0 /\ t2 = R0) =>
                        kids = <<node.front_child>>

\* a line trace whose two ends lie exactly on a node plane has gone into the
\* front child of that node only
C22_Witness ==
    /\ Traced
    /\ traceq.kind = "line"
    /\ traceq.start # traceq.end
    /\ \E i \in 1..Len(traceq.nodes) :
          LET node  == level.nodes[traceq.nodes[i].node_idx + 1]
              plane == level.planes[node.plane + 1]
          IN  /\ SignedDist(plane, traceq.start) = R0
              /\ SignedDist(plane, traceq.end) = R0
              /\ node.front_child # node.back_child
              /\ ChildCalls(traceq.nodes[i].call) = <<node.front_child>>

\* C19: a brush whose contents miss the content mask is passed over like a
\* brush already visited: in a trace that ends with a positive fraction,
\* every brush of a searched leaf whose contents meet the mask has been
\* clipped, also when it follows a brush whose contents miss the mask.
C19_MismatchSkipped ==
    (Traced /\ RGt(traceq.trace.fraction, R0)) =>
        \A k \in 1..Len(traceq.leaves) :
            LeafSearched(traceq.leaves[k]) =>
                LET list == LeafBrushList(traceq.leaves[k]) IN
                \A i, j \in 1..Len(list) :
                    (/\ i < j
                     /\ BitAnd2(level.brushes[list[i] + 1].contents,
                                traceq.content_mask) = 0
                     /\ BitAnd2(level.brushes[list[j] + 1].contents,
                                traceq.content_mask) # 0)
                    => \E c \in 1..Len(traceq.clipped) :
                          traceq.clipped[c].brush = list[j]

(***************************************************************************)
(* Claims about the traversals of the node tree (SpecWalk).                *)
(***************************************************************************)
\* the child references of the tree, with the root reference 0
ChildRefs ==
    {0} \cup { level.nodes[i].front_child : i \in 1..Len(level.nodes) }
        \cup { level.nodes[i].back_child : i \in 1..Len(level.nodes) }

\* the leaves the tree refers to under the convention leaf = -c - 1
TreeLeaves == { -c - 1 : c \in { d \in ChildRefs : d < 0 } }

Walking == pc = "walk"

\* C14: calc_leaf_index, recursive_trace and check_vis_recursive follow a
\* reference c >= 0 as node c and decode c < 0 as leaf -c - 1: every leaf any
\* of them reaches is a leaf of the tree under that convention, check_vis
\* treats exactly the non-negative references as nodes, and for one position
\* (a point) the three arrive first at the same leaf.
C14_SameDecoding ==
    Walking =>
        /\ walkq.leaf_index.some => walkq.leaf_index.v \in TreeLeaves
        /\ walkq.trace_leaves.some =>
              /\ walkq.trace_leaves.v # <<>>
              /\ \A i \in 1..Len(walkq.trace_leaves.v) :
                    walkq.trace_leaves.v[i] \in TreeLeaves
        /\ walkq.vis.some =>
              /\ ~walkq.vis.v.panic
              /\ walkq.vis.v.leaves # <<>>
              /\ \A i \in 1..Len(walkq.vis.v.nodes) :
                    /\ walkq.vis.v.nodes[i] >= 0
                    /\ walkq.vis.v.nodes[i] \in ChildRefs
              /\ \A i \in 1..Len(walkq.vis.v.leaves) :
                    /\ walkq.vis.v.leaves[i].ref < 0
                    /\ walkq.vis.v.leaves[i].ref \in ChildRefs
                    /\ walkq.vis.v.leaves[i].leaf = -walkq.vis.v.leaves[i].ref - 1
        /\ walkq.leaf_index.some /\ walkq.trace_leaves.some =>
              walkq.trace_leaves.v[1] = walkq.leaf_index.v
        /\ walkq.leaf_index.some /\ walkq.vis.some =>
              /\ walkq.extents = VZero =>
                    walkq.vis.v.leaves[1].leaf = walkq.leaf_index.v
              /\ ~walkq.vis.v.ret =>
                    \E i \in 1..Len(walkq.vis.v.leaves) :
                        walkq.vis.v.leaves[i].leaf = walkq.leaf_index.v

\* the three traversals have been made for a point in leaf 0 of a tree of
\* several nodes, and each has reached leaf 0 through the reference -1
C14_Witness ==
    /\ Walking
    /\ Len(level.nodes) > 1
    /\ walkq.extents = VZero
    /\ walkq.leaf_index.some /\ walkq.trace_leaves.some /\ walkq.vis.some
    /\ walkq.leaf_index.v = 0
    /\ walkq.trace_leaves.v[1] = 0
    /\ walkq.vis.v.leaves[1] = [ref |-> -1, leaf |-> 0]

(***************************************************************************)
(* Claims about repeated decodes (SpecRedecode).                           *)
(***************************************************************************)
\* C15: a second decode of the same cluster from the same vis buffer into a
\* cleared buffer gives the output of the first, and a second decode into
\* the output of the first leaves that output unchanged (and does not
\* panic).
C15_DecodeIdempotent ==
    pc = "decoded" =>
        /\ ~visq.panic
        /\ vis_info = visq.first
        /\ visq.fresh.some =>
              /\ ~visq.fresh.v.panic
              /\ visq.fresh.v.info = visq.first

\* a cluster whose row has a zero run and a literal byte has been decoded
\* three times and some but not all clusters are visible from it
C15_Witness ==
    /\ pc = "decoded"
    /\ visq.again
    /\ visq.fresh.some
    /\ \E k \in 1..Len(vis_info) : vis_info[k]
    /\ \E k \in 1..Len(vis_info) : ~vis_info[k]
    /\ \E i \in 1..(Len(level.vis_buffer) - 1) :
          level.vis_buffer[i] = 0 /\ level.vis_buffer[i + 1] # 0

(***************************************************************************)
(* Claims about level loading.                                             *)
(***************************************************************************)
Loading == pc = "load" /\ loadq.step # "none"

\* the bytes "IBSP" and the little-endian bytes of 38
IBSP == <<73, 66, 83, 80>>
Version38 == <<38, 0, 0, 0>>

\* the end of the last record of lump k, or 0 when the lump holds no
\* complete record
RecordsEnd(file, k) ==
    LET info == file.lumps[k + 1]
        bytes == IF k \in {0, 3} THEN info.length
                 ELSE (info.length \div LumpRecordSize[k + 1]) * LumpRecordSize[k + 1]
    IN  IF bytes = 0 THEN 0 ELSE info.offset + bytes

\* the file ends inside the header, the directory or a record of a lump
Truncated(file) ==
    \/ file.size < HeaderBytes
    \/ \E k \in 0..(NumLumps - 1) : RecordsEnd(file, k) > file.size

\* C16: BspFile::new returns level data only for a file that starts with
\* the magic "IBSP" (0x50534249 little-endian) followed by version 38; a
\* wrong magic, a wrong version or a file that ends inside the directory or
\* inside a lump record makes it panic with nothing returned; the magic is
\* compared before the version is read and both before the directory and
\* the lumps.
C16_LoadOrAbort ==
    Loading =>
        /\ (loadq.bsp_lumps # <<>> \/ loadq.built # <<>>) =>
              loadq.checked = <<"magic", "version">>
        /\ loadq.checked # <<>> => loadq.checked[1] = "magic"
        /\ loadq.map.some <=> loadq.outcome = "loaded"
        /\ (loadq.step = "done" /\ loadq.opens) =>
              /\ loadq.outcome \in {"loaded", "panic"}
              /\ loadq.outcome = "loaded" =>
                    /\ loadq.file.magic = IBSP
                    /\ loadq.file.version = Version38
                    /\ Len(loadq.map.v) = NumLumps
              /\ (\/ loadq.file.magic # IBSP
                  \/ loadq.file.version # Version38
                  \/ Truncated(loadq.file)) => loadq.outcome = "panic"
              /\ (loadq.file.size >= 4 /\ loadq.file.magic # IBSP) =>
                    /\ loadq.why = "magic"
                    /\ loadq.r.pos = 4
                    /\ loadq.checked = <<"magic">>
              /\ (loadq.file.size >= 8 /\ loadq.file.magic = IBSP
                  /\ loadq.file.version # Version38) =>
                    /\ loadq.why = "version"
                    /\ loadq.r.pos = 8
                    /\ loadq.bsp_lumps = <<>>

\* a file with the right header that ends inside a record of a later lump:
\* some lumps were built, the load panicked
C16_Witness ==
    /\ Loading
    /\ loadq.step = "done"
    /\ loadq.file.magic = IBSP
    /\ loadq.file.version = Version38
    /\ loadq.file.size >= HeaderBytes
    /\ Len(loadq.built) >= 4
    /\ loadq.outcome = "panic"
    /\ ~loadq.map.some

\* C17: a level file that cannot be opened reaches the caller of load_map as
\* an I/O error value, a kind of its own next to the parse error.
C17_OpenErrorReturned ==
    (Loading /\ loadq.step = "done" /\ ~loadq.opens) =>
        loadq.outcome = "IOError"

(***************************************************************************)
(* Claims about the resource cache.                                        *)
(***************************************************************************)
\* the resources loaded for path p of which a handle is still held
AliveFor(q, p) ==
    { i \in 1..Len(q.made) : q.made[i] = p /\ q.strong[i] > 0 }

\* this step is a call of load for path p
LoadOf(p) ==
    /\ cacheq.step = "ready"
    /\ cacheq'.calls = cacheq.calls + 1
    /\ cacheq'.path = p

\* C18: a load of a path of which a handle is still held returns that same
\* resource and does not call the loader; a load of a path of which no
\* handle is held calls the loader once and, when the loader succeeds,
\* returns a resource that did not exist before and leaves it cached.
C18_CacheReuse ==
    [][\A p \in Paths :
        LoadOf(p) =>
            IF AliveFor(cacheq, p) # {}
            THEN /\ cacheq'.ret.ok
                 /\ AliveFor(cacheq, p) = {cacheq'.ret.v}
                 /\ cacheq'.loader_calls = cacheq.loader_calls
                 /\ cacheq'.made = cacheq.made
                 /\ cacheq'.strong[cacheq'.ret.v] = cacheq.strong[cacheq'.ret.v] + 1
            ELSE /\ cacheq'.loader_calls[p] = cacheq.loader_calls[p] + 1
                 /\ cacheq'.ret.ok =>
                       /\ cacheq'.ret.v \notin 1..Len(cacheq.made)
                       /\ cacheq'.made[cacheq'.ret.v] = p
                       /\ cacheq'.cache[p] = cacheq'.ret.v
                       /\ AliveFor(cacheq', p) = {cacheq'.ret.v}
    ]_vars

\* a path loaded, dropped, loaded again and then once more: the first
\* resource is gone, the second is held twice, the loader ran twice
C18_Witness ==
    /\ cacheq.step = "ready"
    /\ \E i, j \in 1..Len(cacheq.made) :
         /\ i < j
         /\ cacheq.made[i] = cacheq.made[j]
         /\ cacheq.strong[i] = 0
         /\ cacheq.strong[j] = 2
         /\ cacheq.loader_calls[cacheq.made[i]] = 2
         /\ cacheq.ret = Ok(j)

(***************************************************************************)
(* Claims about the plane distances (SpecPlane).                           *)
(***************************************************************************)
\* the positive unit axis a plane type 0, 1 or 2 stands for
UnitAxis(ty) ==
    IF ty = 0 THEN VI(1, 0, 0) ELSE IF ty = 1 THEN VI(0, 1, 0) ELSE VI(0, 0, 1)

\* |nx|*ex + |ny|*ey + |nz|*ez, 0 without extents
Outward(n, e) ==
    IF e.some
    THEN RAdd(RAdd(RMul(RAbs(n.x), e.v.x), RMul(RAbs(n.y), e.v.y)),
              RMul(RAbs(n.z), e.v.z))
    ELSE R0

\* C23: trace_brush tests start and end against the plane moved outward by
\* |nx|*ex + |ny|*ey + |nz|*ez (not moved without extents); recursive_trace
\* takes that amount as its offset in its general branch, and its branches
\* for plane types 0, 1, 2 give the distances and offset of the general
\* formula whenever the normal is the positive unit axis of the type.
C23_SameOffset ==
    (pc = "plane") =>
        LET n == planeq.plane.normal
            o == Outward(n, planeq.box_extents)
            t1 == RSub(Dot(n, planeq.start), planeq.plane.distance)
            t2 == RSub(Dot(n, planeq.end), planeq.plane.distance)
        IN  /\ planeq.dist = RAdd(planeq.plane.distance, o)
            /\ planeq.d1 = RSub(t1, o)
            /\ planeq.d2 = RSub(t2, o)
            /\ (\/ planeq.plane.plane_type > 2
                \/ n = UnitAxis(planeq.plane.plane_type)) =>
                  planeq.node = [t1 |-> t1, t2 |-> t2, offset |-> o]

\* a plane whose normal has a negative component, tested with extents that
\* differ per axis
C23_Witness ==
    /\ pc = "plane"
    /\ planeq.box_extents.some
    /\ planeq.plane.plane_type = 3
    /\ RLt(planeq.plane.normal.x, R0)
    /\ planeq.box_extents.v.x # planeq.box_extents.v.y
    /\ planeq.dist = RAdd(planeq.plane.distance, Rat(11, 5))
    /\ planeq.node.offset = Rat(11, 5)
    /\ planeq.start # planeq.end

(***************************************************************************)
(* Claims about the renderer's visibility state (SpecRender)               *)
(***************************************************************************)
Rendered == renderq.step = "ready" /\ renderq.prev_leaf >= 0

\* the row of cluster ci decoded into a cleared buffer
DecodedRow(ci) == unpack_vis(ci, [k \in 1..NumClusters |-> FALSE]).info

\* C24: after an update that moved the camera into a new leaf, leaf i is
\* marked visible exactly when its cluster is not 0xFFFF and the bit of its
\* cluster is set in the row decoded for the camera leaf's cluster; a leaf
\* with cluster 0xFFFF is not marked, and no leaf is marked when the camera's
\* leaf has cluster 0xFFFF.
C24_VisibleLeaves ==
    (Rendered /\ renderq.rebuilt) =>
        LET cam == level.leaves[renderq.prev_leaf + 1].cluster
        IN  \A i \in 1..Len(level.leaves) :
              LET ci == level.leaves[i].cluster
              IN  /\ renderq.visible_leaves[i] <=>
                       (/\ ci # U16_MAX
                        /\ cam # U16_MAX
                        /\ DecodedRow(cam)[ci + 1])
                  /\ ci = U16_MAX => ~renderq.visible_leaves[i]
                  /\ cam = U16_MAX => ~renderq.visible_leaves[i]

C24_Witness ==
    /\ Rendered /\ renderq.rebuilt
    /\ \E i, j \in 1..Len(level.leaves) :
         /\ renderq.visible_leaves[i]
         /\ ~renderq.visible_leaves[j]
         /\ level.leaves[j].cluster # U16_MAX

Checked == pc = "checked"

\* the signed distances of the 8 corners of the box to the plane of a node
CornerDists(node_index, center, extents) ==
    { RSub(Dot(get_bounds_corners(center, extents)[i],
               level.planes[level.nodes[node_index + 1].plane + 1].normal),
           level.planes[level.nodes[node_index + 1].plane + 1].distance) : i \in 1..8 }

\* the leaves reached from a node reference by going front when the largest
\* corner distance is >= 0 and back when the smallest is <= 0
RECURSIVE ReachedLeaves(_, _, _)
ReachedLeaves(ref, center, extents) ==
    IF ref < 0 THEN { -ref - 1 }
    ELSE LET ds == CornerDists(ref, center, extents)
         IN  (IF \A d \in ds : RLt(d, R0) THEN {}
              ELSE ReachedLeaves(level.nodes[ref + 1].front_child, center, extents))
             \cup
             (IF \A d \in ds : RGt(d, R0) THEN {}
              ELSE ReachedLeaves(level.nodes[ref + 1].back_child, center, extents))

\* closed boxes [center - extents, center + extents] and the bounding box of
\* leaf l share a point
BoxOverlapsLeaf(l, center, extents) ==
    /\ RLe(RSub(center.x, extents.x), renderq.bbox_max[l + 1].x)
    /\ RLe(renderq.bbox_min[l + 1].x, RAdd(center.x, extents.x))
    /\ RLe(RSub(center.y, extents.y), renderq.bbox_max[l + 1].y)
    /\ RLe(renderq.bbox_min[l + 1].y, RAdd(center.y, extents.y))
    /\ RLe(RSub(center.z, extents.z), renderq.bbox_max[l + 1].z)
    /\ RLe(renderq.bbox_min[l + 1].z, RAdd(center.z, extents.z))

\* C25: check_vis(center, extents) returns true exactly when some leaf reached
\* from the root (front when the largest corner distance is >= 0, back when
\* the smallest is <= 0) is marked visible and has a bounding box that
\* overlaps the query box on all three axes, closed intervals; it is never
\* true for a box that overlaps no visible leaf's bounding box.
C25_CheckVis ==
    Checked =>
        LET c == renderq.check.v.center
            x == renderq.check.v.extents
        IN  /\ ~renderq.check.v.v.panic
            /\ renderq.check.v.v.ret <=>
                 \E l \in ReachedLeaves(0, c, x) :
                    renderq.visible_leaves[l + 1] /\ BoxOverlapsLeaf(l, c, x)
            /\ renderq.check.v.v.ret =>
                 \E l \in 0..(Len(level.leaves) - 1) :
                    renderq.visible_leaves[l + 1] /\ BoxOverlapsLeaf(l, c, x)

\* a straddling box found visible in a leaf that it only touches, past a
\* reached leaf that is not visible
C25_Witness ==
    /\ Checked
    /\ renderq.check.v.v.ret
    /\ Cardinality(ReachedLeaves(0, renderq.check.v.center, renderq.check.v.extents)) > 1
    /\ \E l \in ReachedLeaves(0, renderq.check.v.center, renderq.check.v.extents) :
         ~renderq.visible_leaves[l + 1]
    /\ renderq.check.v.center = VI(-1, -1, 2)

\* the vis buffer decoded for the leaf l: the row of its cluster, or nothing
\* when its cluster is 0xFFFF
VisOfLeaf(l) ==
    IF level.leaves[l + 1].cluster = U16_MAX
    THEN [k \in 1..NumClusters |-> FALSE]
    ELSE DecodedRow(level.leaves[l + 1].cluster)

\* the leaves whose cluster is set in the vis buffer decoded for the leaf l
VisibleFromLeaf(l) ==
    [i \in 1..Len(level.leaves) |->
        /\ level.leaves[i].cluster # U16_MAX
        /\ VisOfLeaf(l)[level.leaves[i].cluster + 1]]

\* a step of update that returned
UpdateStep ==
    /\ pc = "idle" /\ pc' = "idle"
    /\ renderq.step = "ready" /\ renderq'.step = "ready"

\* C28: after every update vis and visible_leaves are those decoded for the
\* cluster of the leaf that contains the position given, with no bit left
\* from an earlier leaf, and an update with a position in the leaf of the
\* update before leaves vis, visible_leaves and prev_leaf unchanged.
C28_VisFollowsCamera ==
    [][UpdateStep =>
          LET l == calc_leaf_index(renderq'.position, 0)
          IN  /\ renderq'.prev_leaf = l
              /\ renderq'.vis = VisOfLeaf(l)
              /\ renderq'.visible_leaves = VisibleFromLeaf(l)
              /\ l = renderq.prev_leaf =>
                    /\ renderq'.vis = renderq.vis
                    /\ renderq'.visible_leaves = renderq.visible_leaves
                    /\ renderq'.prev_leaf = renderq.prev_leaf]_vars

\* the camera has moved within a leaf whose row sets some bits and not others,
\* in a level where the row of another leaf sets a bit that this one does not
C28_Witness ==
    /\ Rendered
    /\ ~renderq.rebuilt
    /\ renderq.position = VI(1, 1, 1)
    /\ \E k \in 1..NumClusters : renderq.vis[k]
    /\ \E k \in 1..NumClusters :
         /\ ~renderq.vis[k]
         /\ \E l \in 0..(Len(level.leaves) - 1) : VisOfLeaf(l)[k]

(***************************************************************************)
(* Claims about the root of the traversals (SpecHead)                      *)
(***************************************************************************)
\* C26: calc_leaf_index starts at the head node of submodel 0, the root that
\* boxtrace and linetrace establish, whatever head node submodel 0 records:
\* the leaf it returns for a point is the leaf a linetrace from that point to
\* itself reaches first.
C26_SameRoot ==
    (Walking /\ walkq.leaf_index.some /\ walkq.trace_leaves.some) =>
        walkq.trace_leaves.v[1] = walkq.leaf_index.v

(***************************************************************************)
(* Claims about the plane a trace returns (SpecCollide)                    *)
(***************************************************************************)
\* the planes named by the brush sides of the level
SidePlanes == { level.brush_sides[i].plane : i \in 1..Len(level.brush_sides) }

PlaneIffBlocked(trace) ==
    /\ trace.plane = -1 <=> trace.fraction = R1
    /\ trace.plane # -1 => trace.plane \in SidePlanes

\* C27: boxtrace and linetrace return plane = -1 exactly when fraction = 1.0
\* and the index of a brush-side plane otherwise; trace_move, which reads the
\* plane table at the returned plane only after an iteration that was not
\* all_solid and had fraction # 1.0, reads it at an index of the table, never
\* at -1.
C27_PlaneIffBlocked ==
    /\ Traced => PlaneIffBlocked(traceq.trace)
    /\ Iterated =>
          /\ PlaneIffBlocked(moveq.trace)
          /\ (~moveq.trace.all_solid /\ moveq.trace.fraction # R1) =>
                moveq.trace.plane \in 0..(Len(level.planes) - 1)
          /\ moveq.exit # "panic"

\* a blocked iteration of a move has read the normal of the plane returned
C27_Witness ==
    /\ Iterated
    /\ ~moveq.trace.all_solid
    /\ moveq.trace.start_solid
    /\ moveq.trace.fraction # R1
    /\ moveq.trace.plane >= 0
    /\ moveq.num_planes > 0
    /\ moveq.planes[moveq.num_planes] = level.planes[moveq.trace.plane + 1].normal

(***************************************************************************)
(* Claims about the bounds of unpack_vis (SpecVis)                         *)
(***************************************************************************)
\* the bytes from offset v on encode at least NumClusters - c more bits: 8
\* per literal byte and 8 * n per zero run of count n
RECURSIVE RowEncodes(_, _)
RowEncodes(v, c) ==
    IF c >= NumClusters THEN TRUE
    ELSE IF v >= Len(level.vis_buffer) THEN FALSE
    ELSE IF VisByteAt(v) # 0 THEN RowEncodes(v + 1, c + 8)
    ELSE /\ v + 1 < Len(level.vis_buffer)
         /\ RowEncodes(v + 2, c + 8 * VisByteAt(v + 1))

Decoding == pc \in {"unpack", "unpack_done", "panic"}

\* C29: for a row that encodes at least as many bits as there are clusters,
\* unpack_vis indexes the output buffer only below the cluster count,
\* whatever the padding bits of the last literal byte, and reads the vis
\* buffer only within the row: no index is out of bounds.
C29_RowInBounds ==
    (Decoding /\ RowEncodes(level.clusters[visq.cluster_index + 1], 0)) =>
        pc # "panic"

(***************************************************************************)
(* Claims about linetrace and the box of no extent (SpecCollide)           *)
(***************************************************************************)
\* C30: linetrace(mask, start, end) returns the same all_solid, start_solid,
\* fraction, end_pos and plane as boxtrace(mask, start, end, (0,0,0)).
C30_LineIsZeroBox ==
    (Traced /\ traceq.kind = "line") =>
        LET b == boxtrace(traceq.content_mask, traceq.start, traceq.end, VZero).trace
        IN  /\ traceq.trace.all_solid = b.all_solid
            /\ traceq.trace.start_solid = b.start_solid
            /\ traceq.trace.fraction = b.fraction
            /\ traceq.trace.end_pos = b.end_pos
            /\ traceq.trace.plane = b.plane

\* a line stopped by the slanted face of a wedge, a plane of type 3
C30_Witness ==
    /\ Traced /\ traceq.kind = "line"
    /\ traceq.trace.fraction # R1
    /\ ~traceq.trace.start_solid
    /\ traceq.trace.plane >= 0
    /\ level.planes[traceq.trace.plane + 1].plane_type = 3
====
